---- MODULE Spec2Model ----
(***************************************************************************)
(* Puzzle-element state machines and level sequencing of the underwater    *)
(* puzzle game (Bevy 0.12 application).                                    *)
(*                                                                         *)
(* Time and timers are exact rationals scaled by One: a timer value of     *)
(* 1.0 is One, a frame delta is given in milliseconds, a rate in           *)
(* thousandths per second.  Every delta used is a multiple of 5 ms so      *)
(* that rate * delta is an integer.                                        *)
(***************************************************************************)
EXTENDS Integers, FiniteSets, Sequences, TLC

VARIABLES
    gameState,    \* State<GameState>
    nextState,    \* NextState<GameState>: None or a requested state
    restartRes,   \* the Restart resource: None or the remembered level
    phase,        \* life cycle of the current level instance
    ran,          \* systems of the Update schedule that already ran this frame
    dt,           \* Time::delta_seconds() of the current frame (ms)
    player,       \* the Player resource (NoPlayer when absent)
    touching,     \* sensors that have a PlayerCollision record
    cams,         \* SecurityCamera + CamSensor components, by camera
    sockets,      \* Socket components, by socket
    switches,     \* Switch components, by switch
    gates,        \* Gate components, by gate
    codes,        \* Code components, by code panel
    fans,         \* Fan components, by fan
    pending,      \* deferred commands queued during the Update schedule
    last,         \* the system that made the last step
    parts         \* components on the elements' other entities, by element:
                  \* segment Visibility, collider Sensor, AnimationPlayer

vars == <<gameState, nextState, restartRes, phase, ran, dt, player, touching,
          cams, sockets, switches, gates, codes, fans, pending, last, parts>>

None == "None"


\* 1.0 on the timer scale; also the number of milliseconds in a second
One == 1000

Max(a, b) == IF a >= b THEN a ELSE b

Min(a, b) == IF a <= b THEN a ELSE b

\* rate (thousandths per second) * delta (ms), on the timer scale
Ramp(d, rate) == (d * rate) \div One

(***************************************************************************)
(* SecurityCamera  (components/security_camera.rs)                         *)
(***************************************************************************)
CamRiseRate == 200

CamFallRate == 1000

\* SecurityCamera::new() together with the CamSensor inserted by init
NewCamera == [active |-> TRUE, triggered |-> FALSE, wire |-> FALSE, timer |-> 0]

\* line 161: a PlayerCollision names the sensor, or the wire flag is set
CamInteracting(cam, inside) == inside \/ cam.wire

CamRisingIgnoresActive(cam, inside) == CamInteracting(cam, inside)

\* line 162
CamRising(cam, inside) == CamInteracting(cam, inside) /\ cam.active

\* lines 162-167: ramp and clamp at 0
CamTimerStep(cam, inside, d) ==
    Max(IF CamRising(cam, inside)
            THEN cam.timer + Ramp(d, CamRiseRate)
            ELSE cam.timer - Ramp(d, CamFallRate),
        0)

\* line 168
CamSaturated(t) == t > One

CamTickWithoutLatch(cam, inside, d) ==
    LET t == CamTimerStep(cam, inside, d)
    IN  IF CamSaturated(t)
            THEN [cam EXCEPT !.triggered = TRUE, !.timer = One]
            ELSE [cam EXCEPT !.timer = t]

\* the body of the sensor loop for one camera (lines 157-171)
CamTick(cam, inside, d) ==
    IF cam.triggered
        THEN cam
        ELSE LET t == CamTimerStep(cam, inside, d)
             IN  IF CamSaturated(t)
                     THEN [cam EXCEPT !.triggered = TRUE, !.timer = One]
                     ELSE [cam EXCEPT !.timer = t]

\* security_camera::update over all sensors
CameraUpdate(cms, ins, d) == [c \in DOMAIN cms |-> CamTick(cms[c], c \in ins, d)]

(***************************************************************************)
(* Socket  (components/socket.rs)                                          *)
(***************************************************************************)
BreakRiseRate == 2000

BreakFallRate == 5000

\* largest ray-hit distance drawn for the two raycasts
MaxDist == 2

\* Socket::new(start); peer is the Entity held by State::ConnectedTo
NewSocket(start) ==
    [state |-> IF start THEN "CanCarryFrom" ELSE "CanCarryTo", peer |-> None,
     is_action_last |-> FALSE, break_timer |-> 0, camera |-> None]

\* iteration order of Query<(Entity, &mut Socket)>: ascending socket name
SockBefore(a, b) ==
    LET Rank(s) == CASE s = "s1" -> 1 [] s = "s2" -> 2 [] s = "e1" -> 3
                     [] s = "e2" -> 4 [] OTHER -> 5
    IN  Rank(a) <= Rank(b)

\* the value a loop variable holds after the loop assigned it for every member of S
LastOf(S) == CHOOSE s \in S : \A t \in S : SockBefore(t, s)

\* what the two raycasts along player -> carried socket can return:
\*   solid: nearest entity passing the wire filter: none, part of the carried
\*          socket ("own"), or anything else ("other"), at distance sdist
\*   cam:   camera owning the nearest entity rooted under a SecurityCamera, at cdist
Rays(cameras) ==
    { r \in [solid : {"none", "own", "other"}, sdist : 0..MaxDist,
             cam : cameras \cup {None}, cdist : 0..MaxDist] :
        /\ (r.solid = "none") = (r.sdist = 0)
        /\ (r.cam = None) = (r.cdist = 0) }

\* lines 169, 184: 0.0 unless the first raycast hit something
RayDistance(ray) == IF ray.solid # "none" THEN ray.sdist ELSE 0

\* lines 171-188
RayBreaking(ray) == ray.solid = "other"

RayCameraOnTie(ray) ==
    IF ray.cam # None /\ ray.cdist <= RayDistance(ray) THEN ray.cam ELSE None

\* lines 190-205
RayCamera(ray) ==
    IF ray.cam # None /\ ray.cdist < RayDistance(ray) THEN ray.cam ELSE None

\* line 132
SockActed(sock, act) == ~sock.is_action_last /\ act

\* lines 231-234
BreakTimerStep(bt, breaking, d) ==
    IF breaking THEN bt + Ramp(d, BreakRiseRate) ELSE bt - Ramp(d, BreakFallRate)

\* line 235
BreakReached(bt) == bt >= One

\* lines 128-153: the loop over all sockets
SocketLoop(socks, ins, act) ==
    LET picked == { s \in DOMAIN socks :
                      socks[s].state = "CanCarryFrom" /\ s \in ins
                      /\ SockActed(socks[s], act) }
    IN  [s \in DOMAIN socks |->
            [socks[s] EXCEPT !.is_action_last = act,
                             !.state = IF s \in picked THEN "Carrying" ELSE @]]

\* line 139: player.socket after the loop
SocketLoopSlot(socks, psock, ins, act) ==
    LET picked == { s \in DOMAIN socks :
                      socks[s].state = "CanCarryFrom" /\ s \in ins
                      /\ SockActed(socks[s], act) }
    IN  IF picked = {} THEN psock ELSE LastOf(picked)

SocketInsideAnyState(socks, ins) ==
    LET S == { s \in DOMAIN socks : s \in ins }
    IN  IF S = {} THEN None ELSE LastOf(S)

\* lines 142-146: `inside` after the loop
SocketInside(socks, ins) ==
    LET S == { s \in DOMAIN socks : socks[s].state = "CanCarryTo" /\ s \in ins }
    IN  IF S = {} THEN None ELSE LastOf(S)

\* lines 147-150: `carrying` after the loop
SocketCarrying(socks) ==
    LET S == { s \in DOMAIN socks : socks[s].state = "Carrying" }
    IN  IF S = {} THEN None ELSE LastOf(S)

\* lines 210-226: camera marking for the carried socket; [sockets, cams]
SocketMark(socks, cms, carrying, camera) ==
    IF camera # None
        THEN [sockets |-> [socks EXCEPT ![carrying].camera = camera],
              cams |-> [cms EXCEPT ![camera].wire = TRUE]]
        ELSE IF socks[carrying].camera # None
            THEN [sockets |-> [socks EXCEPT ![carrying].camera = None],
                  cams |-> [cms EXCEPT ![socks[carrying].camera].wire = FALSE]]
            ELSE [sockets |-> socks, cams |-> cms]

SocketConnectOriginOnly(socks, carrying, inside, is_acted) ==
    IF ~is_acted
        THEN socks
        ELSE IF inside # None
            THEN [socks EXCEPT ![carrying].state = "ConnectedTo",
                               ![carrying].peer = inside]
            ELSE [socks EXCEPT ![carrying].state = "CanCarryFrom"]

\* lines 243-259: connect or cancel on the action edge
SocketConnect(socks, carrying, inside, is_acted) ==
    IF ~is_acted
        THEN socks
        ELSE IF inside # None
            THEN [socks EXCEPT ![carrying].state = "ConnectedTo",
                               ![carrying].peer = inside,
                               ![inside].state = "ConnectedFrom"]
            ELSE [socks EXCEPT ![carrying].state = "CanCarryFrom"]

SocketBreakFallsThrough(socks, carrying, inside, is_acted, breaking, d) ==
    LET bt == BreakTimerStep(socks[carrying].break_timer, breaking, d)
    IN  SocketConnect(
            [socks EXCEPT ![carrying].break_timer = IF BreakReached(bt) THEN 0 ELSE Min(Max(bt, 0), One),
                          ![carrying].state = IF BreakReached(bt) THEN "CanCarryFrom" ELSE @],
            carrying, inside, is_acted)

\* lines 228-259: break timer, forced drop (early return), then connection
SocketBreak(socks, carrying, inside, is_acted, breaking, d) ==
    LET bt == BreakTimerStep(socks[carrying].break_timer, breaking, d)
    IN  IF BreakReached(bt)
            THEN [socks EXCEPT ![carrying].state = "CanCarryFrom",
                               ![carrying].break_timer = 0]
            ELSE SocketConnect(
                     [socks EXCEPT ![carrying].break_timer = Min(Max(bt, 0), One)],
                     carrying, inside, is_acted)

\* socket::update: [sockets, cams, slot] after one run
SocketUpdate(socks, cms, psock, ins, act, d, ray) ==
    LET looped   == SocketLoop(socks, ins, act)
        slot     == SocketLoopSlot(socks, psock, ins, act)
        inside   == SocketInside(socks, ins)
        carrying == SocketCarrying(socks)
    IN  IF carrying = None
            THEN [sockets |-> looped, cams |-> cms, slot |-> slot]
            ELSE LET is_acted == SockActed(socks[carrying], act)
                     marked   == SocketMark(looped, cms, carrying, RayCamera(ray))
                 IN  [sockets |-> SocketBreak(marked.sockets, carrying, inside,
                                              is_acted, RayBreaking(ray), d),
                      cams |-> marked.cams, slot |-> slot]

(***************************************************************************)
(* Shared pieces of the specifications                                     *)
(***************************************************************************)
EmptyFn == [x \in {} |-> None]

\* no deferred command queued
NoPending ==
    [restart |-> None, touched |-> FALSE, touch |-> {}, player |-> FALSE, level |-> FALSE]

\* Player::from_scene_data: the fields the puzzle elements read or write
\* the Player resource is absent
NoPlayer ==
    [exists |-> FALSE, is_action |-> FALSE, is_mouse |-> FALSE, socket |-> None,
     view_controller |-> None, push_vec |-> <<0, 0>>, push_timer |-> 0]

NewPlayer ==
    [exists |-> TRUE, is_action |-> FALSE, is_mouse |-> FALSE, socket |-> None,
     view_controller |-> None, push_vec |-> <<0, 0>>, push_timer |-> 0]

\* `last` when no socket update made the step
Step(sys) ==
    [sys |-> sys, branch |-> "-", acted |-> FALSE, inside |-> None,
     breaking |-> FALSE, camera |-> None]

(***************************************************************************)
(* SpecCamera: security_camera::update driven by the systems that write    *)
(* what it reads                                                           *)
(***************************************************************************)
CamIds == {"c1", "c2"}

\* frame deltas drawn for the camera (ms)
CamDeltas == {500, 1000, 2500}

CamInit ==
    /\ gameState = "Level2" /\ nextState = None /\ restartRes = None
    /\ phase = "Running" /\ ran = {} /\ dt = 0
    /\ player = NewPlayer /\ touching = {}
    /\ cams = [c \in CamIds |-> NewCamera]
    /\ sockets = EmptyFn /\ switches = EmptyFn
    /\ gates = EmptyFn /\ codes = EmptyFn /\ fans = EmptyFn
    /\ pending = NoPending /\ last = Step("init")
    /\ parts = EmptyFn

\* security_camera::update in a frame of delta d
CamSysUpdate ==
    \E d \in CamDeltas :
        /\ cams' = CameraUpdate(cams, touching, d)
        /\ dt' = d
        /\ last' = Step("camera_update")
        /\ UNCHANGED <<gameState, nextState, restartRes, phase, ran, player,
                       touching, sockets, switches, gates, codes, fans, pending,
                       parts>>

\* player::process_collisions: collision records of the camera sensors change
CamEnvCollisions ==
    \E T \in SUBSET DOMAIN cams :
        /\ touching' = T
        /\ last' = Step("process_collisions")
        /\ UNCHANGED <<gameState, nextState, restartRes, phase, ran, dt, player,
                       cams, sockets, switches, gates, codes, fans, pending,
                       parts>>

\* the level wiring switches a camera off (lvl2.rs:139, lvl4.rs:232)
CamEnvDeactivate ==
    \E c \in DOMAIN cams :
        /\ cams' = [cams EXCEPT ![c].active = FALSE]
        /\ last' = Step("process_sensors")
        /\ UNCHANGED <<gameState, nextState, restartRes, phase, ran, dt, player,
                       touching, sockets, switches, gates, codes, fans, pending,
                       parts>>

\* socket::update sets or clears a wire flag (socket.rs:221, 224)
CamEnvWire ==
    \E c \in DOMAIN cams, b \in BOOLEAN :
        /\ cams' = [cams EXCEPT ![c].wire = b]
        /\ last' = Step("socket_update")
        /\ UNCHANGED <<gameState, nextState, restartRes, phase, ran, dt, player,
                       touching, sockets, switches, gates, codes, fans, pending,
                       parts>>

\* level reset: the subtree is despawned and `ready` inserts new cameras
CamEnvReset ==
    /\ cams' = [c \in DOMAIN cams |-> NewCamera]
    /\ touching' = {}
    /\ last' = Step("ready")
    /\ UNCHANGED <<gameState, nextState, restartRes, phase, ran, dt, player,
                   sockets, switches, gates, codes, fans, pending, parts>>

CamNext ==
    \/ CamSysUpdate
    \/ CamEnvCollisions
    \/ CamEnvDeactivate
    \/ CamEnvWire
    \/ CamEnvReset

SpecCamera == CamInit /\ [][CamNext]_vars

(***************************************************************************)
(* SpecSocket: socket::update with its inputs drawn per tick               *)
(***************************************************************************)
StartIds == {"s1"}

EndIds == {"e1"}

\* frame deltas drawn for the sockets (ms)
SockDeltas == {100, 250}

\* the locals of socket::update behind the early return of line 155 and the
\* branch the carried socket took, for `last`
SocketBranch(socks, ins, act, d, ray) ==
    LET carrying == SocketCarrying(socks)
        inside   == SocketInside(socks, ins)
    IN  IF carrying = None
            THEN Step("socket_update")
            ELSE [sys |-> "socket_update",
                  branch |->
                     IF BreakReached(BreakTimerStep(socks[carrying].break_timer,
                                                    RayBreaking(ray), d))
                         THEN "break"
                         ELSE IF ~SockActed(socks[carrying], act) THEN "carry"
                         ELSE IF inside # None THEN "connect" ELSE "cancel",
                  acted |-> SockActed(socks[carrying], act),
                  inside |-> inside,
                  breaking |-> RayBreaking(ray),
                  camera |-> RayCamera(ray)]

SockInit ==
    /\ gameState = "Level2" /\ nextState = None /\ restartRes = None
    /\ phase = "Running" /\ ran = {} /\ dt = 0
    /\ player = NewPlayer /\ touching = {}
    /\ cams = [c \in CamIds |-> NewCamera]
    /\ sockets = [s \in StartIds \cup EndIds |-> NewSocket(s \in StartIds)]
    /\ switches = EmptyFn
    /\ gates = EmptyFn /\ codes = EmptyFn /\ fans = EmptyFn
    /\ pending = NoPending /\ last = Step("init")
    /\ parts = EmptyFn

\* the ray results drawn for the sockets
SockRays == Rays(CamIds)

\* the frame delta and the raycasts are read only behind the early return of
\* line 155; without a carried socket one value of each stands for all
SockTickInputs ==
    IF SocketCarrying(sockets) = None
        THEN {[d |-> 250, ray |-> [solid |-> "none", sdist |-> 0,
                                   cam |-> None, cdist |-> 0]]}
        ELSE [d : SockDeltas, ray : SockRays]

\* socket::update in a frame of delta d
SockSysUpdate ==
    \E ins \in SUBSET DOMAIN sockets, act \in BOOLEAN, i \in SockTickInputs :
        LET r == SocketUpdate(sockets, cams, player.socket, ins, act, i.d, i.ray)
        IN  /\ sockets' = r.sockets
            /\ cams' = r.cams
            /\ player' = [player EXCEPT !.socket = r.slot]
            /\ last' = SocketBranch(sockets, ins, act, i.d, i.ray)
            /\ UNCHANGED <<gameState, nextState, restartRes, phase, ran, dt,
                           touching, switches, gates, codes, fans, pending,
                           parts>>

\* level reset: the subtree is despawned and `ready` inserts new elements
SockEnvReset ==
    /\ sockets' = [s \in DOMAIN sockets |-> NewSocket(s \in StartIds)]
    /\ cams' = [c \in DOMAIN cams |-> NewCamera]
    /\ player' = NewPlayer
    /\ last' = Step("ready")
    /\ UNCHANGED <<gameState, nextState, restartRes, phase, ran, dt, touching,
                   switches, gates, codes, fans, pending, parts>>

SockNext ==
    \/ SockSysUpdate
    \/ SockEnvReset

SpecSocket == SockInit /\ [][SockNext]_vars

(***************************************************************************)
(* SpecSocketGraph: socket::update over several start and end sockets,     *)
(* with any overlap of their sensors and no camera in the level            *)
(***************************************************************************)
GraphStarts == {"s1", "s2"}

GraphEnds == {"e1", "e2"}

\* frame deltas drawn for the socket graph (ms)
GraphDeltas == {250}

\* ray results without a camera in the level
GraphRays == Rays({})

GraphInit ==
    /\ gameState = "Level2" /\ nextState = None /\ restartRes = None
    /\ phase = "Running" /\ ran = {} /\ dt = 0
    /\ player = NewPlayer /\ touching = {}
    /\ cams = EmptyFn
    /\ sockets = [s \in GraphStarts \cup GraphEnds |-> NewSocket(s \in GraphStarts)]
    /\ switches = EmptyFn
    /\ gates = EmptyFn /\ codes = EmptyFn /\ fans = EmptyFn
    /\ pending = NoPending /\ last = Step("init")
    /\ parts = EmptyFn

\* the frame delta and the raycasts are read only behind the early return of
\* line 155; without a carried socket one value of each stands for all
GraphTickInputs ==
    IF SocketCarrying(sockets) = None
        THEN {[d |-> 250, ray |-> [solid |-> "none", sdist |-> 0,
                                   cam |-> None, cdist |-> 0]]}
        ELSE [d : GraphDeltas, ray : GraphRays]

\* socket::update in a frame of delta d; the player may touch any set of sensors
GraphSysUpdate ==
    \E ins \in SUBSET DOMAIN sockets, act \in BOOLEAN, i \in GraphTickInputs :
        LET r == SocketUpdate(sockets, cams, player.socket, ins, act, i.d, i.ray)
        IN  /\ sockets' = r.sockets
            /\ cams' = r.cams
            /\ player' = [player EXCEPT !.socket = r.slot, !.is_action = act]
            /\ touching' = ins
            /\ last' = SocketBranch(sockets, ins, act, i.d, i.ray)
            /\ UNCHANGED <<gameState, nextState, restartRes, phase, ran, dt,
                           switches, gates, codes, fans, pending, parts>>

\* level reset: the subtree is despawned and `ready` inserts new elements
GraphEnvReset ==
    /\ sockets' = [s \in DOMAIN sockets |-> NewSocket(s \in GraphStarts)]
    /\ player' = NewPlayer
    /\ touching' = {}
    /\ last' = Step("ready")
    /\ UNCHANGED <<gameState, nextState, restartRes, phase, ran, dt, cams,
                   switches, gates, codes, fans, pending, parts>>

GraphNext ==
    \/ GraphSysUpdate
    \/ GraphEnvReset

SpecSocketGraph == GraphInit /\ [][GraphNext]_vars

(***************************************************************************)
(* Switch  (components/switch.rs)                                          *)
(***************************************************************************)
SwitchRate == 2000

\* Switch::new
NewSwitch == [clicked |-> FALSE, timer |-> 0]

\* Switch::activated: timer >= 0.5
SwitchActivated(sw) == 2 * sw.timer >= One

SwitchTickUnlatched(sw, inside, act, d) ==
    LET clicked == inside /\ act
        t       == IF clicked THEN sw.timer + Ramp(d, SwitchRate) ELSE sw.timer
    IN  [clicked |-> clicked, timer |-> Min(Max(t, 0), One)]

\* the body of the sensor loop for one switch (lines 145-158)
SwitchTick(sw, inside, act, d) ==
    LET clicked == sw.clicked \/ (inside /\ act)
        t       == IF clicked THEN sw.timer + Ramp(d, SwitchRate) ELSE sw.timer
    IN  [clicked |-> clicked, timer |-> Min(Max(t, 0), One)]

\* switch::update over all sensors
SwitchUpdate(sws, ins, act, d) ==
    [w \in DOMAIN sws |-> SwitchTick(sws[w], w \in ins, act, d)]

(***************************************************************************)
(* Gate, Fan and Code components  (components/gate.rs, fan.rs, code.rs)    *)
(***************************************************************************)
\* Gate::new
NewGate == [is_open |-> FALSE, start_animation |-> FALSE]

\* Gate::opened
GateOpened(g) == g.is_open /\ ~g.start_animation

GateOpenSettled(g) == [is_open |-> TRUE, start_animation |-> FALSE]

\* Gate::open
GateOpen(g) == [is_open |-> TRUE, start_animation |-> TRUE]

\* Fan::new
NewFan == [spinning |-> TRUE, factor |-> One]

\* the four characters of a secret as the input string holds them
CodeDigits(secret) ==
    <<secret \div 1000, (secret \div 100) % 10, (secret \div 10) % 10, secret % 10>>

\* line 53: the largest secret Code::new accepts
MaxSecret == 9999

\* line 54: panic!("Secret can only contain 4 digits"): no Code is built
CodePanic == [panic |-> TRUE]

NewCodeUnchecked(secret) ==
    [secret |-> secret, input |-> <<>>, is_action_last |-> FALSE,
     is_mouse_last |-> FALSE, finish_timer |-> 0, state |-> "Idle"]

\* Code::new(secret)
NewCode(secret) ==
    IF secret > MaxSecret
        THEN CodePanic
        ELSE [secret |-> secret, input |-> <<>>, is_action_last |-> FALSE,
              is_mouse_last |-> FALSE, finish_timer |-> 0, state |-> "Idle"]

\* Code::activated
CodeActivated(c) == c.state = "Success"

\* finish_timer rate (line 248), in thousandths per second
FinishRate == 5000

\* line 238: 0x30, the character '0'
CharZero == 48

CharOfRaw(b) == b

\* line 238: (btn_clicked + 0x30) as char, a character as its code point
CharOf(b) == b + CharZero

\* the four characters that spell secret, as the buttons push them
CodeText(secret) == [k \in 1..4 |-> CharOf(CodeDigits(secret)[k])]

\* line 249: str::parse::<u32> on a string of up to nine characters (whose
\* value always fits a u32): Ok(decimal value), or Err for an empty string or
\* a character that is no digit
RECURSIVE ParseValue(_)
ParseValue(str) ==
    IF str = <<>> THEN 0
    ELSE ParseValue(SubSeq(str, 1, Len(str) - 1)) * 10 + (str[Len(str)] - CharZero)

ParseU32(str) ==
    IF \/ str = <<>>
       \/ \E k \in 1..Len(str) : str[k] \notin CharZero..(CharZero + 9)
        THEN [ok |-> FALSE, value |-> 0]
        ELSE [ok |-> TRUE, value |-> ParseValue(str)]

\* what the cursor raycast of lines 213-219 finds: no cursor ray at all, a ray
\* that hits nothing, an entity under no button, or button `number` of `code`
CursorHits(names, numbers) ==
    {[kind |-> k, code |-> None, number |-> 0] : k \in {"no_ray", "miss", "other"}}
        \cup [kind : {"button"}, code : names, number : numbers]

\* lines 220-235: btn_clicked after the loop over this code's ten buttons
BtnClicked(name, hit) ==
    IF hit.kind = "button" /\ hit.code = name
        THEN [some |-> TRUE, number |-> hit.number]
        ELSE [some |-> FALSE, number |-> 0]

\* lines 192-206: an Idle code; [code, view, returned]
CodeIdle(c, name, inside, acted, view) ==
    IF inside /\ acted
        THEN [code |-> [c EXCEPT !.state = "Acting"], view |-> name, returned |-> FALSE]
        ELSE [code |-> c, view |-> view, returned |-> FALSE]

\* lines 241-244
CodeInputComplete(c) ==
    IF Len(c.input) = 4
        THEN [c EXCEPT !.state = "InputFinished", !.finish_timer = 0]
        ELSE c

\* lines 207-246: an Acting code; the `return` of line 218 leaves update
CodeActing(c, name, acted, clicked, hit, view) ==
    IF acted
        THEN [code |-> [c EXCEPT !.state = "Idle"], view |-> None, returned |-> FALSE]
        ELSE IF hit.kind = "miss"
            THEN [code |-> c, view |-> view, returned |-> TRUE]
            ELSE LET btn == BtnClicked(name, hit)
                     pushed == IF btn.some /\ clicked
                                   THEN [c EXCEPT !.input = Append(@, CharOf(btn.number))]
                                   ELSE c
                 IN  [code |-> CodeInputComplete(pushed), view |-> view,
                      returned |-> FALSE]

FinishReachedLate(t) == t > One

\* lines 254, 260
FinishReached(t) == t >= One

\* lines 247-267; a failed parse (unwrap of line 249) is the panic
CodeInputFinished(c, d, view) ==
    LET t      == c.finish_timer + Ramp(d, FinishRate)
        secret == ParseU32(c.input)
    IN  IF ~secret.ok
            THEN [code |-> CodePanic, view |-> view, returned |-> TRUE]
            ELSE IF secret.value = c.secret
                THEN [code |-> [c EXCEPT !.finish_timer = t,
                                         !.state = IF FinishReached(t) THEN "Success" ELSE @],
                      view |-> view, returned |-> FALSE]
                ELSE [code |-> [c EXCEPT !.finish_timer = t,
                                         !.state = IF FinishReached(t) THEN "Acting" ELSE @,
                                         !.input = IF FinishReached(t) THEN <<>> ELSE @],
                      view |-> view, returned |-> FALSE]

CodeSuccessReopens(c, acted, view) ==
    IF acted
        THEN [code |-> [c EXCEPT !.state = "Idle"], view |-> None, returned |-> FALSE]
        ELSE [code |-> c, view |-> None, returned |-> FALSE]

\* lines 268-270
CodeSuccess(c, acted, view) ==
    [code |-> c, view |-> None, returned |-> FALSE]

\* lines 177-271: the body of the loop for one code; [code, view, returned]
CodeStep(c, name, inside, act, mouse, hit, d, view) ==
    LET acted   == ~c.is_action_last /\ act
        clicked == ~c.is_mouse_last /\ mouse
        seen    == [c EXCEPT !.is_action_last = act, !.is_mouse_last = mouse]
    IN  CASE c.state = "Idle" -> CodeIdle(seen, name, inside, acted, view)
          [] c.state = "Acting" -> CodeActing(seen, name, acted, clicked, hit, view)
          [] c.state = "InputFinished" -> CodeInputFinished(seen, d, view)
          [] OTHER -> CodeSuccess(seen, acted, view)

SegmentMaskShifted(ch) ==
    CASE ch = CharZero + 0 -> \b1110111
      [] ch = CharZero + 1 -> \b0100100
      [] ch = CharZero + 2 -> \b1011101
      [] ch = CharZero + 3 -> \b1101101
      [] ch = CharZero + 4 -> \b0100101
      [] ch = CharZero + 5 -> \b1101011
      [] ch = CharZero + 6 -> \b1111011
      [] ch = CharZero + 7 -> \b0101110
      [] ch = CharZero + 8 -> \b1111111
      [] ch = CharZero + 9 -> \b1101111
      [] OTHER -> 0

\* lines 275-286: the 7-segment mask of one byte of the input
SegmentMask(ch) ==
    CASE ch = CharZero + 0 -> \b1110111
      [] ch = CharZero + 1 -> \b0100100
      [] ch = CharZero + 2 -> \b1011101
      [] ch = CharZero + 3 -> \b1101101
      [] ch = CharZero + 4 -> \b0101110
      [] ch = CharZero + 5 -> \b1101011
      [] ch = CharZero + 6 -> \b1111011
      [] ch = CharZero + 7 -> \b0100101
      [] ch = CharZero + 8 -> \b1111111
      [] ch = CharZero + 9 -> \b1101111
      [] OTHER -> 0

\* lines 273-287: code.input.as_bytes().get(i), slots counted from 0
SlotMask(input, i) == IF i + 1 <= Len(input) THEN SegmentMask(input[i + 1]) ELSE 0

\* lines 289-295: the segments of a slot left Visible: (mask >> j) & 1 > 0
SegmentsVisible(mask) == { j \in 0..6 : (mask \div (2 ^ j)) % 2 > 0 }

\* lines 273-295: the Visibility written to the 4 x 7 segments of a keypad
CodeSegments(c) == [segments |-> [i \in 0..3 |-> SegmentsVisible(SlotMask(c.input, i))]]

\* init, line 124: every segment found is hidden
CodePartsInit == [segments |-> [i \in 0..3 |-> {}]]

\* iteration order of Query<(&mut Code, &Name)>: ascending code name
CodeBefore(a, b) ==
    LET Rank(c) == CASE c = "code1" -> 1 [] c = "code2" -> 2 [] c = "code3" -> 3
                     [] c = "code4" -> 4 [] OTHER -> 5
    IN  Rank(a) <= Rank(b)

\* lines 177-296: the loop over the codes in `todo`; [codes, view, panic,
\* done], done the codes whose turn reached the segment loop of lines 273-295
RECURSIVE CodeLoop(_, _, _, _, _, _, _, _)
CodeLoop(todo, cds, view, ins, act, mouse, hit, d) ==
    IF todo = {}
        THEN [codes |-> cds, view |-> view, panic |-> FALSE, done |-> {}]
        ELSE LET c == CHOOSE x \in todo : \A y \in todo : CodeBefore(x, y)
                 r == CodeStep(cds[c], c, c \in ins, act, mouse, hit, d, view)
             IN  IF r.code = CodePanic
                     THEN [codes |-> cds, view |-> view, panic |-> TRUE, done |-> {}]
                     ELSE IF r.returned
                         THEN [codes |-> [cds EXCEPT ![c] = r.code], view |-> r.view,
                               panic |-> FALSE, done |-> {}]
                         ELSE LET rest == CodeLoop(todo \ {c}, [cds EXCEPT ![c] = r.code],
                                                   r.view, ins, act, mouse, hit, d)
                              IN  [rest EXCEPT !.done = @ \cup {c}]

\* code::update: [codes, view, panic, done] after one run
CodeUpdate(cds, view, ins, act, mouse, hit, d) ==
    CodeLoop(DOMAIN cds, cds, view, ins, act, mouse, hit, d)

\* the segments after code::update: rewritten for the codes in done
CodeShow(prt, cds, done) ==
    [c \in DOMAIN prt |-> IF c \in done THEN CodeSegments(cds[c]) ELSE prt[c]]

(***************************************************************************)
(* SpecCode: one keypad from Code::new to Success, its inputs drawn per    *)
(* tick                                                                    *)
(***************************************************************************)
\* the secrets handed to Code::new: 4-digit ones, ones with leading zeros,
\* one no drawn button can spell, and ones beyond four digits
CodeSecrets == {0, 500, 5050, 9835, 10000, 65536}

\* the numbers of the buttons the cursor is moved over
CodeButtons == {0, 5}

\* frame deltas drawn for the keypad (ms)
CodeDeltas == {100, 250}

CodeHits == CursorHits({"code1"}, CodeButtons)

\* a panic ends the program: no system runs after it
Panicked == last.branch = "panic"

CodeInit ==
    /\ gameState = "Level2" /\ nextState = None /\ restartRes = None
    /\ phase = "Running" /\ ran = {} /\ dt = 0
    /\ player = NewPlayer /\ touching = {}
    /\ cams = EmptyFn /\ sockets = EmptyFn /\ switches = EmptyFn
    /\ gates = EmptyFn /\ codes = EmptyFn /\ fans = EmptyFn
    /\ pending = NoPending /\ last = Step("init")
    /\ parts = EmptyFn

\* `ready` of a level inserts Code::new(secret) on the keypad's entity
CodeLevelReady ==
    /\ ~Panicked /\ codes = EmptyFn
    /\ \E secret \in CodeSecrets :
          LET c == NewCode(secret)
          IN  IF c = CodePanic
                  THEN /\ codes' = codes /\ parts' = parts
                       /\ last' = [Step("code_new") EXCEPT !.branch = "panic"]
                  ELSE /\ codes' = [n \in {"code1"} |-> c]
                       /\ parts' = [n \in {"code1"} |-> CodePartsInit]
                       /\ last' = Step("code_new")
    /\ player' = NewPlayer /\ touching' = {}
    /\ UNCHANGED <<gameState, nextState, restartRes, phase, ran, dt, cams,
                   sockets, switches, gates, fans, pending>>

\* code::update in a frame of delta d, after process_keyboard wrote the keys
CodeSysUpdate ==
    /\ ~Panicked /\ codes # EmptyFn
    /\ \E ins \in SUBSET DOMAIN codes, act \in BOOLEAN, mouse \in BOOLEAN,
          hit \in CodeHits, d \in CodeDeltas :
          LET r == CodeUpdate(codes, player.view_controller, ins, act, mouse, hit, d)
          IN  /\ codes' = r.codes
              /\ parts' = CodeShow(parts, r.codes, r.done)
              /\ player' = [player EXCEPT !.is_action = act, !.is_mouse = mouse,
                                          !.view_controller = r.view]
              /\ touching' = ins
              /\ last' = [Step("code_update") EXCEPT
                             !.branch = IF r.panic THEN "panic" ELSE "-"]
    /\ UNCHANGED <<gameState, nextState, restartRes, phase, ran, dt, cams,
                   sockets, switches, gates, fans, pending>>

\* the level is left or restarted: cleanup despawns the keypad and the player
CodeEnvReset ==
    /\ ~Panicked /\ codes # EmptyFn
    /\ codes' = EmptyFn /\ parts' = EmptyFn
    /\ player' = NewPlayer /\ touching' = {}
    /\ last' = Step("cleanup")
    /\ UNCHANGED <<gameState, nextState, restartRes, phase, ran, dt, cams,
                   sockets, switches, gates, fans, pending>>

CodeNext ==
    \/ CodeLevelReady
    \/ CodeSysUpdate
    \/ CodeEnvReset

SpecCode == CodeInit /\ [][CodeNext]_vars

(***************************************************************************)
(* SpecCodePair: code::update over the two keypads of a level, the player  *)
(* free to move between their sensors                                      *)
(***************************************************************************)
\* Code::new(..) of the two keypads of the third level
PairSecrets == [code1 |-> 3028, code2 |-> 8824]

\* the number of the button the cursor is moved over
PairButtons == {8}

\* frame delta drawn for the two keypads (ms)
PairDeltas == {250}

PairHits == CursorHits(DOMAIN PairSecrets, PairButtons)

PairInit ==
    /\ gameState = "Level3" /\ nextState = None /\ restartRes = None
    /\ phase = "Running" /\ ran = {} /\ dt = 0
    /\ player = NewPlayer /\ touching = {}
    /\ cams = EmptyFn /\ sockets = EmptyFn /\ switches = EmptyFn
    /\ gates = EmptyFn /\ fans = EmptyFn
    /\ codes = [c \in DOMAIN PairSecrets |-> NewCode(PairSecrets[c])]
    /\ pending = NoPending /\ last = Step("init")
    /\ parts = [c \in DOMAIN PairSecrets |-> CodePartsInit]

\* code::update in a frame of delta d, after process_keyboard wrote the keys
PairSysUpdate ==
    \E ins \in SUBSET DOMAIN codes, act \in BOOLEAN, mouse \in BOOLEAN,
       hit \in PairHits, d \in PairDeltas :
        LET r == CodeUpdate(codes, player.view_controller, ins, act, mouse, hit, d)
        IN  /\ codes' = r.codes
            /\ parts' = CodeShow(parts, r.codes, r.done)
            /\ player' = [player EXCEPT !.is_action = act, !.is_mouse = mouse,
                                        !.view_controller = r.view]
            /\ touching' = ins
            /\ last' = Step("code_update")
            /\ UNCHANGED <<gameState, nextState, restartRes, phase, ran, dt, cams,
                           sockets, switches, gates, fans, pending>>

\* level reset: the subtree is despawned and `ready` inserts new keypads
PairEnvReset ==
    /\ codes' = [c \in DOMAIN PairSecrets |-> NewCode(PairSecrets[c])]
    /\ parts' = [c \in DOMAIN PairSecrets |-> CodePartsInit]
    /\ player' = NewPlayer /\ touching' = {}
    /\ last' = Step("ready")
    /\ UNCHANGED <<gameState, nextState, restartRes, phase, ran, dt, cams,
                   sockets, switches, gates, fans, pending>>

PairNext ==
    \/ PairSysUpdate
    \/ PairEnvReset

SpecCodePair == PairInit /\ [][PairNext]_vars

(***************************************************************************)
(* Level wiring and sequencing  (levels/*.rs, main.rs)                     *)
(***************************************************************************)
Levels == {"Level2", "Level3", "Level4"}

\* the elements `ready` tags that take part in level transitions and in the
\* camera wiring: socket_start/socket_end, cam1 and the switch wired to cam1
LevelCams(lvl) == IF lvl \in {"Level2", "Level4"} THEN {"cam1"} ELSE {}

LevelSwitch(lvl) ==
    CASE lvl = "Level2" -> {"switch1"} [] lvl = "Level4" -> {"switch3"}
      [] OTHER -> {}

LevelSockets == {"s1", "e1"}

LevelAfterInOrder(lvl) ==
    CASE lvl = "Level2" -> "Level3" [] lvl = "Level3" -> "Level4"
      [] OTHER -> "Level0"

\* the level a connected end socket leads to
LevelAfter(lvl) ==
    CASE lvl = "Level2" -> "Level3" [] lvl = "Level3" -> "Level4"
      [] OTHER -> "Level2"

\* Socket::connected
SocketConnected(sock) == sock.state \in {"ConnectedTo", "ConnectedFrom"}

\* process_sensors, `switchN.activated() => cam1.active = false`
WireCameraOff(lvl, cms, sws) ==
    IF \E w \in LevelSwitch(lvl) : SwitchActivated(sws[w])
        THEN [c \in DOMAIN cms |-> [cms[c] EXCEPT !.active = FALSE]]
        ELSE cms

WireNextStateEager(lvl, cms, socks, ns) == LevelAfter(lvl)

\* process_sensors, the level-transition requests in program order:
\* the NextState written last is the one that stays
WireNextState(lvl, cms, socks, ns) ==
    LET afterCam == IF \E c \in LevelCams(lvl) : cms[c].triggered
                        THEN "Restart" ELSE ns
    IN  IF SocketConnected(socks["e1"]) THEN LevelAfter(lvl) ELSE afterCam

\* process_sensors, commands.insert_resource(Restart(level))
WireRestartCommand(lvl, cms, queued) ==
    IF \E c \in LevelCams(lvl) : cms[c].triggered THEN lvl ELSE queued

\* a restart that forgets which level asked for it
RestartAlwaysFirstLevel(res) == "Level2"

\* OnEnter(GameState::Restart): game_state.set(restart.0)
RestartTarget(res) == res

\* a cleanup that leaves the level's entities alive
DespawnNothing(tbl) == tbl

\* levels::cleanup, despawn_recursive of the level root: no component of the
\* instance is left
Despawn(tbl) == EmptyFn

\* components of entities outside the scene root `ready` walks
Stale(tbl) == [k \in {"old." \o n : n \in DOMAIN tbl} |-> tbl[CHOOSE n \in DOMAIN tbl : "old." \o n = k]]

\* lvlN::ready: entities under the new scene root get new components, any
\* other entity is skipped by the root filter and keeps what it has
ReadyInsert(tbl, new) == new @@ Stale(tbl)

\* levels::cleanup, commands.remove_resource::<Player>()
CleanupPlayer(p) == NoPlayer

\* frame deltas drawn for the level frames (ms)
MainDeltas == {2500}

\* most sensors the player overlaps at once
MaxTouch == 1

\* the sensors of the live level instance
LevelSensors == DOMAIN cams \cup DOMAIN sockets \cup DOMAIN switches

\* systems of the Update schedule whose run conditions hold in this frame
Due ==
    IF gameState = "Restart" THEN {}
    ELSE CASE phase = "LoadLevel" -> {"load"}
           [] phase = "LoadScene" -> {"scene_load"}
           [] phase = "Added" ->
                 {"process_sensors", "ready", "process_keyboard", "process_collisions"}
           [] phase = "AddedBoth" -> {"process_sensors", "ready"}
           [] phase \in {"Loading", "LoadingParts"} -> {"init"}
           [] phase = "Running" ->
                 {"process_keyboard", "socket_update", "process_sensors",
                  "process_collisions"}
                 \cup (IF DOMAIN cams # {} THEN {"camera_update"} ELSE {})
                 \cup (IF DOMAIN switches # {} THEN {"switch_update"} ELSE {})
           [] OTHER -> {}

\* a system may run: the frame's state transition is done, its run
\* conditions hold and it has not run in this frame
MayRun(sys) == "transition" \in ran /\ sys \in Due /\ sys \notin ran

Init ==
    /\ gameState = "Level2" /\ nextState = None /\ restartRes = None
    /\ phase = "LoadLevel" /\ ran = {"transition"} /\ dt \in MainDeltas
    /\ player = NoPlayer /\ touching = {}
    /\ cams = EmptyFn /\ sockets = EmptyFn /\ switches = EmptyFn
    /\ gates = EmptyFn /\ codes = EmptyFn /\ fans = EmptyFn
    /\ pending = NoPending /\ last = Step("init")
    /\ parts = EmptyFn

\* apply_state_transition with the OnExit/OnEnter schedules it runs:
\* levels::cleanup + lvlN::cleanup on exit, lvlN::setup or levels::restart on enter
ApplyStateTransition ==
    /\ "transition" \notin ran
    /\ ran' = {"transition"}
    /\ nextState # None
    /\ IF nextState = gameState
           THEN /\ nextState' = None
                /\ UNCHANGED <<gameState, restartRes, phase, player, touching,
                               cams, sockets, switches>>
           ELSE /\ gameState' = nextState
                /\ cams' = Despawn(cams) /\ sockets' = Despawn(sockets)
                /\ switches' = Despawn(switches)
                /\ player' = CleanupPlayer(player) /\ touching' = {}
                /\ IF nextState = "Restart"
                       THEN /\ nextState' = RestartTarget(restartRes)
                            /\ restartRes' = None
                            /\ phase' = "None"
                       ELSE /\ nextState' = None
                            /\ phase' = "LoadLevel"
                            /\ UNCHANGED restartRes
    /\ UNCHANGED <<dt, gates, codes, fans, pending, last, parts>>

\* apply_state_transition when no transition is requested
NoStateTransition ==
    /\ "transition" \notin ran
    /\ nextState = None
    /\ ran' = {"transition"}
    /\ UNCHANGED <<gameState, nextState, restartRes, phase, dt, player, touching,
                   cams, sockets, switches, gates, codes, fans, pending, last, parts>>

\* levels::load: queues the scene and player loading
LevelLoad ==
    /\ MayRun("load")
    /\ ran' = ran \cup {"load"}
    /\ UNCHANGED <<gameState, nextState, restartRes, phase, dt, player, touching,
                   cams, sockets, switches, gates, codes, fans, pending, last, parts>>

\* game_scene::load polling the level scene and the player scene; the
\* on_ready commands insert the Player and the level resource.  The level
\* is taken to be ready no earlier than the player: socket::update and the
\* other element updates take ResMut<Player> and cannot run without it.
SceneLoad ==
    /\ MayRun("scene_load")
    /\ ran' = ran \cup {"scene_load"}
    /\ \E p \in BOOLEAN, l \in BOOLEAN :
          /\ p => ~player.exists
          /\ l => (p \/ player.exists)
          /\ pending' = [pending EXCEPT !.player = p, !.level = l]
    /\ UNCHANGED <<gameState, nextState, restartRes, phase, dt, player, touching,
                   cams, sockets, switches, gates, codes, fans, last,
                   parts>>

\* lvlN::ready: tags the named entities with new components
LevelReady ==
    /\ MayRun("ready")
    /\ "process_sensors" \in Due => "process_sensors" \in ran
    /\ ran' = ran \cup {"ready"}
    /\ cams' = ReadyInsert(cams, [c \in LevelCams(gameState) |-> NewCamera])
    /\ sockets' = ReadyInsert(sockets, [s \in LevelSockets |-> NewSocket(s = "s1")])
    /\ switches' = ReadyInsert(switches, [w \in LevelSwitch(gameState) |-> NewSwitch])
    /\ UNCHANGED <<gameState, nextState, restartRes, phase, dt, player, touching,
                   gates, codes, fans, pending, last, parts>>

\* the init systems of the element plugins resolving the tagged parts
ElementInit ==
    /\ MayRun("init")
    /\ ran' = ran \cup {"init"}
    /\ UNCHANGED <<gameState, nextState, restartRes, phase, dt, player, touching,
                   cams, sockets, switches, gates, codes, fans, pending, last, parts>>

\* player::process_keyboard
ProcessKeyboard ==
    /\ MayRun("process_keyboard")
    /\ ran' = ran \cup {"process_keyboard"}
    /\ \E a \in BOOLEAN : player' = [player EXCEPT !.is_action = a]
    /\ UNCHANGED <<gameState, nextState, restartRes, phase, dt, touching,
                   cams, sockets, switches, gates, codes, fans, pending, last, parts>>

\* player::process_collisions: spawns and despawns PlayerCollision records by
\* deferred commands only, so it is taken as the last system of the frame
ProcessCollisions ==
    /\ MayRun("process_collisions")
    /\ Due \ {"process_collisions"} \subseteq ran
    /\ ran' = ran \cup {"process_collisions"}
    /\ \E T \in SUBSET LevelSensors :
          /\ Cardinality(T) <= MaxTouch
          /\ pending' = [pending EXCEPT !.touched = TRUE, !.touch = T]
    /\ UNCHANGED <<gameState, nextState, restartRes, phase, dt, player, touching,
                   cams, sockets, switches, gates, codes, fans, last,
                   parts>>

\* security_camera::update
SysCameraUpdate ==
    /\ MayRun("camera_update")
    /\ ran' = ran \cup {"camera_update"}
    /\ cams' = CameraUpdate(cams, touching, dt)
    /\ UNCHANGED <<gameState, nextState, restartRes, phase, dt, player, touching,
                   sockets, switches, gates, codes, fans, pending, last,
                   parts>>

\* the ray results drawn in a level
MainRays == Rays({"cam1"})

\* socket::update
SysSocketUpdate ==
    /\ MayRun("socket_update")
    /\ ran' = ran \cup {"socket_update"}
    /\ \E ray \in (IF SocketCarrying(sockets) = None
                      THEN {[solid |-> "none", sdist |-> 0, cam |-> None, cdist |-> 0]}
                      ELSE {r \in MainRays : r.cam \in DOMAIN cams \cup {None}}) :
          LET r == SocketUpdate(sockets, cams, player.socket, touching,
                                player.is_action, dt, ray)
          IN  /\ sockets' = r.sockets
              /\ cams' = r.cams
              /\ player' = [player EXCEPT !.socket = r.slot]
    /\ UNCHANGED <<gameState, nextState, restartRes, phase, dt, touching,
                   switches, gates, codes, fans, pending, last, parts>>

\* switch::update
SysSwitchUpdate ==
    /\ MayRun("switch_update")
    /\ ran' = ran \cup {"switch_update"}
    /\ switches' = SwitchUpdate(switches, touching, player.is_action, dt)
    /\ UNCHANGED <<gameState, nextState, restartRes, phase, dt, player, touching,
                   cams, sockets, gates, codes, fans, pending, last,
                   parts>>

\* lvlN::process_sensors: returns at once while level.entities is None
ProcessSensors ==
    /\ MayRun("process_sensors")
    /\ ran' = ran \cup {"process_sensors"}
    /\ IF phase # "Running"
           THEN UNCHANGED <<cams, nextState, pending>>
           ELSE LET wired == WireCameraOff(gameState, cams, switches)
                IN  /\ cams' = wired
                    /\ nextState' = WireNextState(gameState, wired, sockets, nextState)
                    /\ pending' = [pending EXCEPT
                           !.restart = WireRestartCommand(gameState, wired, @)]
    /\ UNCHANGED <<gameState, restartRes, phase, dt, player, touching,
                   sockets, switches, gates, codes, fans, last, parts>>

\* the life cycle step the applied commands cause
PhaseAfter ==
    CASE phase = "LoadLevel" -> "LoadScene"
      [] phase = "LoadScene" ->
            IF pending.level
                THEN (IF pending.player THEN "AddedBoth" ELSE "Added")
                ELSE "LoadScene"
      [] phase \in {"Added", "AddedBoth"} -> "Loading"
      [] phase = "Loading" -> "LoadingParts"
      [] phase = "LoadingParts" -> "Running"
      [] OTHER -> phase

\* end of the Update schedule: the queued commands are applied and the next
\* frame begins with a new delta
EndFrame ==
    /\ "transition" \in ran
    /\ Due \subseteq ran
    /\ ran' = {}
    /\ \E d \in MainDeltas : dt' = d
    /\ restartRes' = IF pending.restart # None THEN pending.restart ELSE restartRes
    /\ touching' = IF pending.touched THEN pending.touch ELSE touching
    /\ player' = IF pending.player THEN NewPlayer ELSE player
    /\ phase' = PhaseAfter
    /\ pending' = NoPending
    /\ UNCHANGED <<gameState, nextState, cams, sockets, switches, gates, codes, fans,
                   last, parts>>

Next ==
    \/ ApplyStateTransition
    \/ NoStateTransition
    \/ LevelLoad
    \/ SceneLoad
    \/ LevelReady
    \/ ElementInit
    \/ ProcessKeyboard
    \/ ProcessCollisions
    \/ SysCameraUpdate
    \/ SysSocketUpdate
    \/ SysSwitchUpdate
    \/ ProcessSensors
    \/ EndFrame

Spec == Init /\ [][Next]_vars

(***************************************************************************)
(* SpecRestart: a restart of Level2 or Level4 with every element `ready`   *)
(* tags.  The instance that is left is drawn from combinations of states   *)
(* of untouched and of used elements, with its camera triggered; the steps *)
(* are the handlers between the wiring that asks for the restart and the   *)
(* first frame in which the new instance is live.                          *)
(***************************************************************************)
RestartLevels == {"Level2", "Level4"}

\* lvl2.rs:96-98, lvl4.rs:128-132
ReadySwitches(lvl) ==
    IF lvl = "Level2" THEN {"switch1"}
    ELSE {"switch1", "switch2", "switch3", "switch4", "switch5"}

\* lvl4.rs:123-127
ReadyGates(lvl) ==
    IF lvl = "Level2" THEN {} ELSE {"gate1", "gate2", "gate3", "gate4", "gate5"}

\* lvl2.rs:99, lvl4.rs:133-136: the secrets of the code panels
ReadySecrets(lvl) ==
    IF lvl = "Level2" THEN [c \in {"code1"} |-> 1824]
    ELSE [code1 |-> 9835, code2 |-> 152, code3 |-> 5489, code4 |-> 9845]

\* lvl2.rs:100, lvl4.rs:137-139
ReadyFans(lvl) == IF lvl = "Level2" THEN {"fan1"} ELSE {"fan1", "fan2", "fan3"}

\* process_sensors: <<source, gate>> for `source.activated() && !gate.opened()`
GateWires(lvl) ==
    IF lvl = "Level2" THEN {}
    ELSE {<<"code1", "gate1">>, <<"code2", "gate3">>, <<"code4", "gate2">>,
          <<"switch2", "gate5">>, <<"switch4", "gate4">>}

\* process_sensors: <<source, fan>> for `source.activated() => fan.spinning = false`
FanWires(lvl) ==
    IF lvl = "Level2" THEN {<<"code1", "fan1">>}
    ELSE {<<"code3", "fan2">>, <<"switch1", "fan1">>, <<"switch5", "fan3">>}

\* Code::activated or Switch::activated of a wiring source
Activated(src, cds, sws) ==
    IF src \in DOMAIN cds THEN CodeActivated(cds[src]) ELSE SwitchActivated(sws[src])

\* process_sensors, the gate rules
WireGates(lvl, gts, cds, sws) ==
    [g \in DOMAIN gts |->
        IF /\ \E w \in GateWires(lvl) : w[2] = g /\ Activated(w[1], cds, sws)
           /\ ~GateOpened(gts[g])
            THEN GateOpen(gts[g]) ELSE gts[g]]

WireFansFlip(lvl, fns, cds, sws) ==
    [f \in DOMAIN fns |->
        IF \E w \in FanWires(lvl) : w[2] = f /\ Activated(w[1], cds, sws)
            THEN [fns[f] EXCEPT !.spinning = ~@] ELSE fns[f]]

\* process_sensors, the fan rules
WireFans(lvl, fns, cds, sws) ==
    [f \in DOMAIN fns |->
        IF \E w \in FanWires(lvl) : w[2] = f /\ Activated(w[1], cds, sws)
            THEN [fns[f] EXCEPT !.spinning = FALSE] ELSE fns[f]]

\* a camera that has just triggered, with or without a wire across it
PlayedCameras ==
    {[active |-> TRUE, triggered |-> TRUE, wire |-> w, timer |-> One] : w \in BOOLEAN}

\* an untouched switch and a pulled one
PlayedSwitches == {NewSwitch, [clicked |-> TRUE, timer |-> One]}

\* how far the code panels got: all untouched, code1 in use with two digits
\* typed, all solved
PlayedCodes == {"Idle", "Acting", "Success"}

\* code panel c of the level in stage st
PlayedCode(c, secret, st) ==
    CASE st = "Acting" /\ c = "code1" ->
            [NewCode(secret) EXCEPT !.state = "Acting",
                                    !.input = SubSeq(CodeText(secret), 1, 2)]
      [] st = "Success" ->
            [NewCode(secret) EXCEPT !.state = "Success", !.finish_timer = One,
                                    !.input = CodeText(secret)]
      [] OTHER -> NewCode(secret)

\* the sockets with the wire at rest or carried across camera cam
PlayedSockets(carried, cam) ==
    [s \in LevelSockets |->
        IF s = "s1" /\ carried
            THEN [NewSocket(TRUE) EXCEPT !.state = "Carrying", !.camera = cam]
            ELSE NewSocket(s = "s1")]

\* the combinations drawn: the camera, the switch wired to the camera (pulled
\* in this frame at the earliest, or the camera could not have triggered), the
\* other switches, the code panels, whether the wiring of earlier frames has
\* already acted on gates and fans, and whether the wire is carried (a wire
\* across the camera needs a carried socket)
PlayedChoices ==
    {ch \in [cm : PlayedCameras, camsw : PlayedSwitches, sw : PlayedSwitches,
             cd : PlayedCodes, wired : BOOLEAN, carried : BOOLEAN] :
        ch.cm.wire => ch.carried}

\* the instance of lvl that the restart leaves, by choice ch
PlayedLevel(lvl, ch) ==
    LET sws == [w \in ReadySwitches(lvl) |->
                   IF w \in LevelSwitch(lvl) THEN ch.camsw ELSE ch.sw]
        cds == [c \in DOMAIN ReadySecrets(lvl) |->
                   PlayedCode(c, ReadySecrets(lvl)[c], ch.cd)]
        on(wires, k) == ch.wired /\ \E w \in wires : w[2] = k /\ Activated(w[1], cds, sws)
    IN  [cams     |-> [c \in LevelCams(lvl) |-> ch.cm],
         switches |-> sws,
         gates    |-> [g \in ReadyGates(lvl) |->
                          IF on(GateWires(lvl), g)
                              THEN [is_open |-> TRUE, start_animation |-> FALSE]
                              ELSE NewGate],
         codes    |-> cds,
         fans     |-> [f \in ReadyFans(lvl) |->
                          IF on(FanWires(lvl), f)
                              THEN [spinning |-> FALSE, factor |-> 0]
                              ELSE NewFan],
         sockets  |-> PlayedSockets(ch.carried, IF ch.cm.wire THEN "cam1" ELSE None),
         player   |-> [NewPlayer EXCEPT
                          !.socket = IF ch.carried THEN "s1" ELSE None,
                          !.view_controller = IF ch.cd = "Acting" THEN "code1" ELSE None],
         touching |-> IF ch.cm.wire THEN {} ELSE {"cam1"}]

\* the instances of lvl that the restart may leave
Played(lvl) == {PlayedLevel(lvl, ch) : ch \in PlayedChoices}

RstInit ==
    /\ gameState \in RestartLevels /\ nextState = None /\ restartRes = None
    /\ phase = "Running" /\ ran = {} /\ dt = 0
    /\ pending = NoPending /\ last = Step("init")
    /\ parts = EmptyFn
    /\ \E r \in Played(gameState) :
          /\ cams = r.cams /\ switches = r.switches /\ gates = r.gates
          /\ codes = r.codes /\ fans = r.fans /\ sockets = r.sockets
          /\ player = r.player /\ touching = r.touching

\* lvlN::process_sensors with all its rules
RstProcessSensors ==
    /\ phase = "Running"
    /\ phase' = "Wired"
    /\ gates' = WireGates(gameState, gates, codes, switches)
    /\ fans' = WireFans(gameState, fans, codes, switches)
    /\ LET wired == WireCameraOff(gameState, cams, switches)
       IN  /\ cams' = wired
           /\ nextState' = WireNextState(gameState, wired, sockets, nextState)
           /\ pending' = [pending EXCEPT
                  !.restart = WireRestartCommand(gameState, wired, @)]
    /\ last' = Step("process_sensors")
    /\ UNCHANGED <<gameState, restartRes, ran, dt, player, touching, sockets,
                   switches, codes, parts>>

\* the commands of the frame are applied: insert_resource(Restart(level))
RstApplyCommands ==
    /\ phase = "Wired"
    /\ phase' = "FrameEnd"
    /\ restartRes' = IF pending.restart # None THEN pending.restart ELSE restartRes
    /\ pending' = NoPending
    /\ UNCHANGED <<gameState, nextState, ran, dt, player, touching, cams, sockets,
                   switches, gates, codes, fans, last, parts>>

\* OnExit(level): levels::cleanup and lvlN::cleanup
RstExitLevel ==
    /\ phase = "FrameEnd" /\ nextState = "Restart"
    /\ phase' = "Exited"
    /\ cams' = Despawn(cams) /\ sockets' = Despawn(sockets)
    /\ switches' = Despawn(switches) /\ gates' = Despawn(gates)
    /\ codes' = Despawn(codes) /\ fans' = Despawn(fans)
    /\ player' = CleanupPlayer(player) /\ touching' = {}
    /\ UNCHANGED <<gameState, nextState, restartRes, ran, dt, pending, last, parts>>

\* OnEnter(GameState::Restart): levels::restart
RstEnterRestart ==
    /\ phase = "Exited"
    /\ phase' = "Restart"
    /\ gameState' = "Restart"
    /\ nextState' = RestartTarget(restartRes)
    /\ restartRes' = None
    /\ last' = Step("restart")
    /\ UNCHANGED <<ran, dt, player, touching, cams, sockets, switches, gates,
                   codes, fans, pending, parts>>

\* the next frame's transition, OnEnter(level): lvlN::setup
RstEnterLevel ==
    /\ phase = "Restart"
    /\ phase' = "LoadLevel"
    /\ gameState' = nextState
    /\ nextState' = None
    /\ UNCHANGED <<restartRes, ran, dt, player, touching, cams, sockets, switches,
                   gates, codes, fans, pending, last, parts>>

\* levels::load and game_scene::load: the scenes are spawned, the Player and
\* the level resource inserted
RstLoad ==
    /\ phase = "LoadLevel"
    /\ phase' = "Added"
    /\ player' = NewPlayer
    /\ UNCHANGED <<gameState, nextState, restartRes, ran, dt, touching, cams,
                   sockets, switches, gates, codes, fans, pending, last,
                   parts>>

\* lvlN::ready
RstReady ==
    /\ phase = "Added"
    /\ phase' = "Loading"
    /\ cams' = ReadyInsert(cams, [c \in LevelCams(gameState) |-> NewCamera])
    /\ sockets' = ReadyInsert(sockets, [s \in LevelSockets |-> NewSocket(s = "s1")])
    /\ switches' = ReadyInsert(switches, [w \in ReadySwitches(gameState) |-> NewSwitch])
    /\ gates' = ReadyInsert(gates, [g \in ReadyGates(gameState) |-> NewGate])
    /\ codes' = ReadyInsert(codes, [c \in DOMAIN ReadySecrets(gameState) |->
                                       NewCode(ReadySecrets(gameState)[c])])
    /\ fans' = ReadyInsert(fans, [f \in ReadyFans(gameState) |-> NewFan])
    /\ UNCHANGED <<gameState, nextState, restartRes, ran, dt, player, touching,
                   pending, last, parts>>

\* the init systems remove the Loading tags: from the next frame on the
\* element updates and the wiring run
RstInitDone ==
    /\ phase = "Loading"
    /\ phase' = "Live"
    /\ UNCHANGED <<gameState, nextState, restartRes, ran, dt, player, touching,
                   cams, sockets, switches, gates, codes, fans, pending, last, parts>>

\* the new instance is played until its camera triggers again
RstPlay ==
    /\ phase = "Live"
    /\ phase' = "Running"
    /\ \E r \in Played(gameState) :
          /\ cams' = r.cams /\ switches' = r.switches /\ gates' = r.gates
          /\ codes' = r.codes /\ fans' = r.fans /\ sockets' = r.sockets
          /\ player' = r.player /\ touching' = r.touching
    /\ last' = Step("update")
    /\ UNCHANGED <<gameState, nextState, restartRes, ran, dt, pending, parts>>

RstNext ==
    \/ RstProcessSensors
    \/ RstApplyCommands
    \/ RstExitLevel
    \/ RstEnterRestart
    \/ RstEnterLevel
    \/ RstLoad
    \/ RstReady
    \/ RstInitDone
    \/ RstPlay

SpecRestart == RstInit /\ [][RstNext]_vars

(***************************************************************************)
(* Claims about level sequencing, under Spec                               *)
(***************************************************************************)
\* the step is the level's wiring running on a live level
WiringRuns ==
    /\ phase = "Running"
    /\ "process_sensors" \notin ran
    /\ "process_sensors" \in ran'

\* C1: in Level2 and Level4, when the wiring runs in a tick in which cam1 is
\* triggered and the end socket is connected, the transition it leaves
\* requested is the restart of the current level, never the advance.
C1_RestartTakesPrecedence ==
    [][(/\ WiringRuns
        /\ gameState \in {"Level2", "Level4"}
        /\ cams["cam1"].triggered
        /\ SocketConnected(sockets["e1"]))
       => (nextState' = "Restart" /\ pending'.restart = gameState)]_vars

\* C2: the Restart state is entered only with a remembered target that is the
\* level just left; entering it consumes the target and requests that level;
\* while in Restart nothing is remembered and the only state reached next is
\* the requested level.
C2_RestartOneShot ==
    [][/\ (gameState # "Restart" /\ gameState' = "Restart")
            => /\ restartRes = gameState
               /\ restartRes' = None
               /\ nextState' = gameState
       /\ gameState = "Restart"
            => /\ restartRes = None
               /\ nextState \in Levels
               /\ \/ gameState' = "Restart" /\ nextState' = nextState
                  \/ gameState' = nextState]_vars

\* C2 witness: the Restart state entered from Level4, which is reached only
\* after Level2 and Level3 were left by an advance.
C2_Witness ==
    /\ gameState = "Restart"
    /\ nextState = "Level4"
    /\ restartRes = None

(***************************************************************************)
(* Claims about the restart, under SpecRestart                             *)
(***************************************************************************)
\* C3: when a restarted level goes live again, every puzzle element is in
\* its initial state: the camera active, untriggered, timer 0, wire flag
\* false; switches unclicked; gates closed; codes Idle with empty input;
\* fans spinning; sockets unconnected; the view focus cleared; and no
\* component of the earlier instance is left.
C3_FreshAfterRestart ==
    phase = "Live" =>
        /\ DOMAIN cams = LevelCams(gameState)
        /\ \A c \in DOMAIN cams :
              /\ cams[c].active /\ ~cams[c].triggered
              /\ cams[c].timer = 0 /\ ~cams[c].wire
        /\ DOMAIN switches = ReadySwitches(gameState)
        /\ \A w \in DOMAIN switches :
              ~switches[w].clicked /\ switches[w].timer = 0 /\ ~SwitchActivated(switches[w])
        /\ DOMAIN gates = ReadyGates(gameState)
        /\ \A g \in DOMAIN gates :
              ~gates[g].is_open /\ ~gates[g].start_animation /\ ~GateOpened(gates[g])
        /\ DOMAIN codes = DOMAIN ReadySecrets(gameState)
        /\ \A c \in DOMAIN codes :
              /\ codes[c].state = "Idle" /\ codes[c].input = <<>>
              /\ codes[c].finish_timer = 0 /\ ~CodeActivated(codes[c])
        /\ DOMAIN fans = ReadyFans(gameState)
        /\ \A f \in DOMAIN fans : fans[f].spinning /\ fans[f].factor = One
        /\ DOMAIN sockets = LevelSockets
        /\ \A k \in DOMAIN sockets :
              /\ sockets[k].state = (IF k = "s1" THEN "CanCarryFrom" ELSE "CanCarryTo")
              /\ sockets[k].peer = None
              /\ sockets[k].break_timer = 0 /\ sockets[k].camera = None
        /\ player.exists
        /\ player.socket = None /\ player.view_controller = None
        /\ restartRes = None

\* C3 witness: Level4 is live again after a restart that its triggered
\* camera requested, with gates, codes and fans in the level.
C3_Witness ==
    /\ phase = "Live" /\ gameState = "Level4"
    /\ last.sys = "restart"
    /\ DOMAIN gates # {} /\ DOMAIN codes # {} /\ DOMAIN fans # {}
    /\ ~cams["cam1"].triggered

(***************************************************************************)
(* Claims about the security camera, under SpecCamera                      *)
(***************************************************************************)

\* C4 (as stated): in every reachable state a detection timer of 1.0 implies
\* that the camera is triggered.
C4_FullTimerImpliesTriggered ==
    \A c \in DOMAIN cams : cams[c].timer = One => cams[c].triggered

\* C5: once triggered, a camera stays triggered with its timer at 1.0 in
\* every later step that is not the level reset, whatever active, the wire
\* flag and the collision records become.
C5_TriggeredIsLatched ==
    [][ last'.sys # "ready" =>
          \A c \in DOMAIN cams :
              cams[c].triggered =>
                  /\ cams[c].timer = One
                  /\ cams'[c].triggered
                  /\ cams'[c].timer = One ]_vars

\* a triggered camera that is switched off, not bypassed and not touched
\* has just been ticked
C5_Witness ==
    \E c \in DOMAIN cams :
        /\ cams[c].triggered /\ ~cams[c].active /\ ~cams[c].wire
        /\ c \notin touching
        /\ last.sys = "camera_update"

\* C6: in a tick that starts with the camera not triggered, the timer rises
\* (or saturates and triggers the camera) if and only if active is true and
\* the player is inside the sensor or the camera is wire-bypassed; in every
\* other tick it falls at 1.0/s clamped at 0 and the camera stays untriggered.
\* So a camera that is not active never becomes triggered.
C6_RampDirection ==
    [][ last'.sys = "camera_update" =>
          \A c \in DOMAIN cams :
              ~cams[c].triggered =>
                  LET rising == cams[c].active /\ (c \in touching \/ cams[c].wire)
                  IN  /\ rising =>
                            \/ cams'[c].timer > cams[c].timer
                            \/ cams'[c].triggered
                      /\ ~rising =>
                            /\ cams'[c].timer =
                                   Max(cams[c].timer - Ramp(dt', CamFallRate), 0)
                            /\ ~cams'[c].triggered
                      /\ (cams'[c].triggered => cams[c].active) ]_vars

\* an inactive camera with the player inside its sensor has just ticked and
\* its timer is still falling
C6_Witness ==
    \E c \in DOMAIN cams :
        /\ ~cams[c].active /\ ~cams[c].triggered /\ c \in touching
        /\ cams[c].timer > 0
        /\ last.sys = "camera_update"

(***************************************************************************)
(* Claims about the socket wire, under SpecSocket.  A claim about what     *)
(* one tick does is stated over every input the tick can draw in a         *)
(* reachable state.                                                        *)
(***************************************************************************)
SockInputs ==
    [ins : SUBSET (StartIds \cup EndIds), act : BOOLEAN, d : SockDeltas,
     ray : SockRays]

\* sockets, cameras and carried slot after a tick with inputs i
SockAfter(i) ==
    SocketUpdate(sockets, cams, player.socket, i.ins, i.act, i.d, i.ray)

\* the socket that is Carrying when the tick starts (None if there is none)
Carried ==
    IF \E s \in DOMAIN sockets : sockets[s].state = "Carrying"
        THEN CHOOSE s \in DOMAIN sockets : sockets[s].state = "Carrying"
        ELSE None

\* the break timer of socket s ramped up at 2.0/s in the tick (and forced
\* the drop when it reached 1.0)
BreakRampedUp(s, after, d) ==
    LET up == sockets[s].break_timer + Ramp(d, BreakRiseRate)
    IN  IF up >= One
            THEN after.sockets[s].state = "CanCarryFrom"
                 /\ after.sockets[s].break_timer = 0
            ELSE after.sockets[s].break_timer = up

\* the break timer of socket s decayed at 5.0/s in the tick, clamped at 0
BreakDecayed(s, after, d) ==
    after.sockets[s].break_timer =
        Max(sockets[s].break_timer - Ramp(d, BreakFallRate), 0)

\* C7 (as stated): a camera's wire flag is true only while some socket is
\* Carrying and that socket's wire path crosses this camera.
C7_WireOnlyWhileCarried ==
    \A c \in DOMAIN cams :
        cams[c].wire =>
            \E s \in DOMAIN sockets :
                sockets[s].state = "Carrying" /\ sockets[s].camera = c

\* C8 (as stated): while a socket is Carrying, a ray that hits a camera
\* volume, with no break obstruction hit or with the camera nearer than the
\* obstruction, marks that camera wire-bypassed in that tick.
C8_CameraHitIsMarked ==
    \A i \in SockInputs :
        ( /\ Carried # None
          /\ i.ray.cam # None
          /\ (i.ray.solid # "other" \/ i.ray.cdist < i.ray.sdist) )
        => SockAfter(i).cams[i.ray.cam].wire

\* C9 (as stated): when the ray hits both an obstruction that is not part of
\* the carried socket and a camera, exactly one effect applies: obstruction
\* strictly nearer => the break timer ramps up and no camera is marked;
\* otherwise the camera is marked and the break timer does not ramp up.
C9_ExactlyOneEffect ==
    \A i \in SockInputs :
        (Carried # None /\ i.ray.solid = "other" /\ i.ray.cam # None) =>
            LET after == SockAfter(i)
            IN  IF i.ray.sdist < i.ray.cdist
                    THEN /\ BreakRampedUp(Carried, after, i.d)
                         /\ \A c \in DOMAIN cams : ~after.cams[c].wire
                    ELSE /\ after.cams[i.ray.cam].wire
                         /\ BreakDecayed(Carried, after, i.d)

\* C9 (amended): when the ray hits both an obstruction that is not part of
\* the carried socket and a camera, the break timer ramps up in either case;
\* the camera is marked only if it is strictly nearer than the obstruction;
\* otherwise the tick marks no camera and clears the mark of the camera the
\* carried socket had marked.
C9_ObstructionAlwaysBreaks ==
    \A i \in SockInputs :
        (Carried # None /\ i.ray.solid = "other" /\ i.ray.cam # None) =>
            LET after == SockAfter(i)
            IN  /\ BreakRampedUp(Carried, after, i.d)
                /\ IF i.ray.cdist < i.ray.sdist
                       THEN /\ after.cams[i.ray.cam].wire
                            /\ after.sockets[Carried].camera = i.ray.cam
                       ELSE /\ after.sockets[Carried].camera = None
                            /\ \A c \in DOMAIN cams :
                                   after.cams[c].wire =>
                                       cams[c].wire /\ c # sockets[Carried].camera

\* the last tick saw the carried socket's ray obstructed and marked a camera
C9_Witness ==
    /\ last.sys = "socket_update" /\ last.breaking /\ last.camera # None
    /\ cams[last.camera].wire
    /\ \E s \in DOMAIN sockets :
           sockets[s].state = "Carrying" /\ sockets[s].break_timer > 0

\* C10: in a tick in which the carried socket's break timer reaches 1.0 the
\* socket ends in CanCarryFrom with break_timer 0 and no socket becomes
\* connected, even with an action edge while a CanCarryTo socket is occupied.
C10_BreakDiscardsConnect ==
    \A i \in SockInputs :
        ( /\ Carried # None
          /\ i.ray.solid = "other"
          /\ sockets[Carried].break_timer + Ramp(i.d, BreakRiseRate) >= One )
        => LET after == SockAfter(i)
           IN  /\ after.sockets[Carried].state = "CanCarryFrom"
               /\ after.sockets[Carried].break_timer = 0
               /\ \A s \in DOMAIN sockets :
                      after.sockets[s].state \in {"ConnectedTo", "ConnectedFrom"}
                          => after.sockets[s].state = sockets[s].state

\* the last tick dropped the carried socket on an action edge with a
\* destination occupied, and nothing is connected
C10_Witness ==
    /\ last.sys = "socket_update" /\ last.branch = "break"
    /\ last.acted /\ last.inside # None
    /\ sockets[last.inside].state = "CanCarryTo"

(***************************************************************************)
(* Claims about the socket graph, under SpecSocketGraph                    *)
(***************************************************************************)
GraphInputs ==
    [ins : SUBSET (GraphStarts \cup GraphEnds), act : BOOLEAN, d : GraphDeltas,
     ray : GraphRays]

\* sockets, cameras and carried slot after a tick with inputs i
GraphAfter(i) ==
    SocketUpdate(sockets, cams, player.socket, i.ins, i.act, i.d, i.ray)

\* the origins connected to destination d
OriginsOf(d) ==
    { s \in DOMAIN sockets : sockets[s].state = "ConnectedTo" /\ sockets[s].peer = d }

\* C11: a connection is consistent in every reachable state: a socket that is
\* ConnectedTo(d) has a destination d that is ConnectedFrom, and every
\* ConnectedFrom destination is the peer of exactly one origin, so no state
\* has only one side of a connection.
C11_ConnectionConsistent ==
    /\ \A s \in DOMAIN sockets :
          sockets[s].state = "ConnectedTo" =>
              /\ sockets[s].peer \in DOMAIN sockets
              /\ sockets[sockets[s].peer].state = "ConnectedFrom"
    /\ \A d \in DOMAIN sockets :
          sockets[d].state = "ConnectedFrom" => Cardinality(OriginsOf(d)) = 1

\* both origins are connected, each to its own destination, the second one
\* in the tick that just ran
C11_Witness ==
    /\ \A s \in GraphStarts : sockets[s].state = "ConnectedTo"
    /\ \A d \in GraphEnds : sockets[d].state = "ConnectedFrom"
    /\ last.sys = "socket_update" /\ last.branch = "connect"

\* C12 (as stated): at most one socket is Carrying in every reachable state,
\* whatever the number of start sockets and the overlap of their sensors, and
\* a Carrying socket is the one in the player's carried slot.
C12_AtMostOneCarrying ==
    LET C == { s \in DOMAIN sockets : sockets[s].state = "Carrying" }
    IN  /\ Cardinality(C) <= 1
        /\ \A s \in C : player.socket = s

\* the carried socket's break timer stays below 1.0 in a tick with inputs i
StaysBelowBreak(s, i) ==
    \/ s # SocketCarrying(sockets)
    \/ ~BreakReached(BreakTimerStep(sockets[s].break_timer, RayBreaking(i.ray), i.d))

\* C13 (as stated): in a tick where a Carrying socket's break timer stays
\* below 1.0, an action rising edge connects it to a CanCarryTo socket the
\* player occupies, or returns it to CanCarryFrom when the player occupies
\* none; without an edge it stays Carrying.  A socket picked up in a tick is
\* still Carrying at the end of that tick.
C13_CarryingEdge ==
    \A i \in GraphInputs : \A s \in DOMAIN sockets :
        LET after == GraphAfter(i).sockets
            free  == { e \in i.ins : sockets[e].state = "CanCarryTo" }
        IN  /\ (sockets[s].state = "Carrying" /\ StaysBelowBreak(s, i)) =>
                IF SockActed(sockets[s], i.act)
                    THEN IF free # {}
                        THEN after[s].state = "ConnectedTo" /\ after[s].peer \in free
                        ELSE after[s].state = "CanCarryFrom"
                    ELSE after[s].state = "Carrying"
            /\ (sockets[s].state = "CanCarryFrom" /\ s \in i.ins
                    /\ SockActed(sockets[s], i.act)) =>
                after[s].state = "Carrying"

StartStates == {"CanCarryFrom", "Carrying", "ConnectedTo"}

EndStates == {"CanCarryTo", "ConnectedFrom"}

SocketsTyped ==
    /\ \A s \in GraphStarts : sockets[s].state \in StartStates
    /\ \A d \in GraphEnds : sockets[d].state \in EndStates

\* C14: a start socket is always CanCarryFrom, Carrying or ConnectedTo and a
\* destination is always CanCarryTo or ConnectedFrom; a destination becomes
\* ConnectedFrom only from CanCarryTo; ConnectedTo and ConnectedFrom are never
\* left while the level instance lives (until `ready` builds new sockets).
C14_NoIllegalEdge ==
    [][/\ SocketsTyped /\ SocketsTyped'
       /\ \A d \in DOMAIN sockets :
             (sockets'[d].state = "ConnectedFrom" /\ sockets[d].state # "ConnectedFrom")
                 => sockets[d].state = "CanCarryTo"
       /\ last'.sys # "ready" =>
             \A s \in DOMAIN sockets :
                 sockets[s].state \in {"ConnectedTo", "ConnectedFrom"} =>
                     /\ sockets'[s].state = sockets[s].state
                     /\ sockets'[s].peer = sockets[s].peer]_vars

\* the second origin was carried into the sensor of a destination that is
\* already connected and the action edge came there: the wire was put down
C14_Witness ==
    /\ sockets["s1"].state = "ConnectedTo" /\ sockets["s1"].peer = "e1"
    /\ sockets["e1"].state = "ConnectedFrom"
    /\ touching = {"e1", "s1"} /\ player.is_action
    /\ last.sys = "socket_update" /\ last.branch = "cancel"
    /\ sockets["s2"].state = "CanCarryFrom"

(***************************************************************************)
(* Claims about the keypad, under SpecCode                                 *)
(***************************************************************************)
CodeInputs ==
    [ins : SUBSET {"code1"}, act : BOOLEAN, mouse : BOOLEAN, hit : CodeHits,
     d : CodeDeltas]

\* codes and view focus after a tick with inputs i
CodeAfter(i) ==
    CodeUpdate(codes, player.view_controller, i.ins, i.act, i.mouse, i.hit, i.d)

\* the zero-padded four-character decimal form of secret
ZeroPadded(secret) == CodeText(secret)

\* C15: for every secret a keypad can be built with, the tick that brings the
\* input to four digits moves Acting to InputFinished with the finish timer
\* at 0; in InputFinished the timer grows by 5.0 per second, and in the tick
\* where it reaches 1.0 the keypad goes to Success if the input is the
\* zero-padded decimal form of the secret and back to Acting with empty input
\* otherwise; below 1.0 it stays InputFinished.
C15_FinishDecides ==
    \A i \in CodeInputs : \A c \in DOMAIN codes :
        LET before == codes[c]
            after  == CodeAfter(i).codes[c]
            t      == before.finish_timer + (i.d * 5)
        IN  /\ before.state = "Acting" =>
                /\ (Len(after.input) = 4) = (after.state = "InputFinished")
                /\ after.state = "InputFinished" => after.finish_timer = 0
            /\ before.state = "InputFinished" =>
                /\ after.finish_timer = t
                /\ IF t < 1000
                       THEN after.state = "InputFinished" /\ after.input = before.input
                       ELSE IF before.input = ZeroPadded(before.secret)
                           THEN after.state = "Success"
                           ELSE after.state = "Acting" /\ after.input = <<>>

\* a secret with leading zeros was typed as 0500 and accepted
C15_Witness ==
    /\ "code1" \in DOMAIN codes
    /\ codes["code1"].secret = 500
    /\ codes["code1"].input = <<48, 53, 48, 48>>
    /\ codes["code1"].state = "Success"
    /\ last.sys = "code_update"

\* C16: Success is terminal: a keypad in Success stays in Success with its
\* input, secret and timer unchanged for as long as it exists, activated()
\* stays true, and activated() is true in no other state.
C16_SuccessTerminal ==
    [][\A c \in DOMAIN codes :
          /\ CodeActivated(codes[c]) = (codes[c].state = "Success")
          /\ (codes[c].state = "Success" /\ c \in DOMAIN codes') =>
                /\ codes'[c].state = "Success"
                /\ CodeActivated(codes'[c])
                /\ codes'[c].input = codes[c].input
                /\ codes'[c].secret = codes[c].secret
                /\ codes'[c].finish_timer = codes[c].finish_timer]_vars

\* a tick ran on a keypad in Success (it took the view focus away) with the
\* action key and the mouse button down inside the sensor
C16_Witness ==
    /\ "code1" \in DOMAIN codes
    /\ codes["code1"].state = "Success"
    /\ player.view_controller = None
    /\ player.is_action /\ player.is_mouse /\ "code1" \in touching
    /\ last.sys = "code_update"

\* C19: the input holds at most four characters, all of them '0'..'9';
\* InputFinished is held only with exactly four digits, so the parse of
\* line 249 never fails.
C19_InputWellFormed ==
    /\ \A c \in DOMAIN codes :
          /\ codes[c] # CodePanic
          /\ Len(codes[c].input) <= 4
          /\ \A k \in 1..Len(codes[c].input) : codes[c].input[k] \in 48..57
          /\ codes[c].state = "InputFinished" =>
                Len(codes[c].input) = 4 /\ ParseU32(codes[c].input).ok
    /\ last.sys = "code_update" => last.branch # "panic"

\* four digits are in, and the parse has run at least once on them
C19_Witness ==
    /\ "code1" \in DOMAIN codes
    /\ codes["code1"].state = "InputFinished"
    /\ codes["code1"].finish_timer > 0
    /\ Len(codes["code1"].input) = 4

\* C20: Code::new fails at construction for a secret above 9999, and for
\* every secret in 0..9999 it builds a keypad in Idle with empty input and
\* the finish timer at 0.
C20_ConstructionChecked ==
    /\ \A secret \in CodeSecrets :
          IF secret > 9999
              THEN NewCode(secret) = CodePanic
              ELSE NewCode(secret) =
                       [secret |-> secret, input |-> <<>>, is_action_last |-> FALSE,
                        is_mouse_last |-> FALSE, finish_timer |-> 0, state |-> "Idle"]
    /\ \A c \in DOMAIN codes : codes[c].secret \in 0..9999
    /\ last.sys = "code_new" =>
          IF last.branch = "panic"
              THEN codes = EmptyFn
              ELSE \A c \in DOMAIN codes :
                      /\ codes[c].state = "Idle" /\ codes[c].input = <<>>
                      /\ codes[c].finish_timer = 0

\* `ready` asked for a keypad with a five-digit secret and the program stopped
C20_Witness ==
    /\ last.sys = "code_new" /\ last.branch = "panic"
    /\ codes = EmptyFn

(***************************************************************************)
(* Claims about the keypads of one level, under SpecCodePair.  The edges   *)
(* are those of the player's keys: up in the frame before, down in this    *)
(* one.                                                                    *)
(***************************************************************************)
PairInputs ==
    [ins : SUBSET DOMAIN PairSecrets, act : BOOLEAN, mouse : BOOLEAN,
     hit : PairHits, d : PairDeltas]

\* codes and view focus after a tick with inputs i
PairAfter(i) ==
    CodeUpdate(codes, player.view_controller, i.ins, i.act, i.mouse, i.hit, i.d)

\* C17 (as stated): a keypad goes from Idle to Acting exactly in a tick with
\* an action rising edge while the player is inside its sensor, and from
\* Acting to Idle exactly in a tick with an action rising edge, which clears
\* the view focus; a held button causes no further transition.
C17_EdgeTransitions ==
    \A i \in PairInputs : \A c \in DOMAIN codes :
        LET after == PairAfter(i)
            edge  == ~player.is_action /\ i.act
        IN  /\ codes[c].state = "Idle" =>
                (after.codes[c].state = "Acting") = (edge /\ c \in i.ins)
            /\ codes[c].state = "Acting" =>
                (after.codes[c].state = "Idle") = edge
            /\ (codes[c].state = "Acting" /\ after.codes[c].state = "Idle") =>
                after.view # c

\* C18 (as stated): a digit is appended to a keypad's input only in a tick
\* where the keypad is Acting, the mouse button has a rising edge and the
\* cursor is over one of its buttons; the digit is that button's number, and
\* at most one digit is appended per tick, so a held click does not repeat.
C18_DigitOnClickEdge ==
    \A i \in PairInputs : \A c \in DOMAIN codes :
        LET before == codes[c].input
            after  == PairAfter(i).codes[c].input
        IN  /\ Len(after) <= Len(before) + 1
            /\ Len(after) > Len(before) =>
                /\ codes[c].state = "Acting"
                /\ ~player.is_mouse /\ i.mouse
                /\ i.hit.kind = "button" /\ i.hit.code = c
                /\ after = Append(before, 48 + i.hit.number)

(***************************************************************************)
(* Claims about the 7-segment display, under SpecCodePair                  *)
(***************************************************************************)
\* the table of C21, by digit
MaskTable == <<\h77, \h24, \h5D, \h6D, \h2E, \h6B, \h7B, \h25, \h7F, \h6F>>

\* the mask C21 gives slot i (from 0) of input
TableMask(input, i) == IF i + 1 <= Len(input) THEN MaskTable[input[i + 1] - 48 + 1] ELSE 0

\* C21: for each digit slot i in 0..3 the mask shown is the table value of
\* the i-th input digit, and 0 when the input has no i-th digit; segment j of
\* the slot is visible exactly when bit j of the mask is 1.
C21_SegmentsShowInput ==
    /\ \A digit \in 0..9 : SegmentMask(CharOf(digit)) = MaskTable[digit + 1]
    /\ \A c \in DOMAIN codes : \A i \in 0..3 : \A j \in 0..6 :
          (j \in parts[c].segments[i])
              = ((TableMask(codes[c].input, i) \div (2 ^ j)) % 2 = 1)

\* three digits are typed on the second keypad and shown, the fourth slot is
\* dark, while the first keypad is Acting too
C21_Witness ==
    /\ codes["code1"].state = "Acting"
    /\ codes["code2"].state = "Acting"
    /\ Len(codes["code2"].input) = 3
    /\ parts["code2"].segments[2] = 0..6
    /\ parts["code2"].segments[3] = {}
    /\ last.sys = "code_update"

(***************************************************************************)
(* AnimationPlayer of a switch or gate entity, as switch::update and       *)
(* gate::update drive it                                                   *)
(***************************************************************************)
\* the longest clip, in ms of play time at speed 1.0
ClipLength == 500

\* restarts counted per player
MaxStarts == 3

\* the AnimationPlayer the scene gives the entity: no clip, never completed
NewAnimationPlayer == [clip |-> "none", elapsed |-> 0, speed |-> One, starts |-> 0]

\* AnimationPlayer::is_finished of a RepeatAnimation::Never clip
AnimFinished(ap) == ap.clip # "none" /\ ap.elapsed >= ClipLength

AnimPlayRestart(ap, clip) ==
    [ap EXCEPT !.clip = clip, !.elapsed = 0, !.starts = Min(@ + 1, MaxStarts)]

\* animation_player.play(clip) / play_with_transition(clip, 250 ms): the clip
\* is started from its beginning unless it is the clip already playing
AnimPlay(ap, clip) ==
    IF ap.clip = clip
        THEN ap
        ELSE [ap EXCEPT !.clip = clip, !.elapsed = 0, !.starts = Min(@ + 1, MaxStarts)]

\* .set_speed(speed)
AnimSetSpeed(ap, speed) == [ap EXCEPT !.speed = speed]

\* the engine's animation step of a frame of delta d: the clip advances by
\* d * speed and completes at its end
AnimAdvance(ap, d) ==
    IF ap.clip = "none"
        THEN ap
        ELSE [ap EXCEPT !.elapsed = Min(Max(@ + Ramp(d, ap.speed), 0), ClipLength)]

SwitchPlaysUnpressed(sw, inside, act) == ~sw.clicked

\* switch::update, lines 145-147: clicked && !switch.clicked
SwitchPlays(sw, inside, act) == (inside /\ act) /\ ~sw.clicked

\* switch::update, lines 147-151, on the switch's AnimationPlayer
SwitchAnimate(ap, sw, inside, act) ==
    IF SwitchPlays(sw, inside, act)
        THEN AnimSetSpeed(AnimPlay(ap, "switch.animation"), 2 * One)
        ELSE ap

GateTickUnfinished(g, ap) ==
    LET ap1 == IF g.start_animation
                   THEN AnimSetSpeed(AnimPlay(ap, "gate.animation"),
                                     IF g.is_open THEN One ELSE 0 - One)
                   ELSE ap
    IN  [gate   |-> [g EXCEPT !.start_animation = FALSE],
         anim   |-> ap1,
         remove |-> g.start_animation /\ ~g.is_open,
         insert |-> g.is_open]

\* gate::update for one gate, lines 93-105: the gate, its AnimationPlayer and
\* the commands queued for its collider (remove::<Sensor>, try_insert(Sensor))
GateTick(g, ap) ==
    LET ap1 == IF g.start_animation
                   THEN AnimSetSpeed(AnimPlay(ap, "gate.animation"),
                                     IF g.is_open THEN One ELSE 0 - One)
                   ELSE ap
    IN  [gate   |-> [g EXCEPT !.start_animation = FALSE],
         anim   |-> ap1,
         remove |-> g.start_animation /\ ~g.is_open,
         insert |-> AnimFinished(ap1) /\ g.is_open]

\* the end of the Update schedule: the queued remove::<Sensor> and
\* try_insert(Sensor) of a collider are applied in the order they were queued
SensorAfter(sensor, cmd) ==
    IF cmd.insert THEN TRUE ELSE IF cmd.remove THEN FALSE ELSE sensor

\* no command queued for a collider
NoSensorCmd == [remove |-> FALSE, insert |-> FALSE]

\* the scene's gate entity: a fresh AnimationPlayer and a solid collider
GatePartsInit == [anim |-> NewAnimationPlayer, sensor |-> FALSE]

\* the scene's switch entity
SwitchPartsInit == [anim |-> NewAnimationPlayer]

(***************************************************************************)
(* SpecGate: gate::update on one gate whose open() any system may call     *)
(***************************************************************************)
GateIds == {"gate1"}

GateDeltas == {100, 150, 250}

GateInit ==
    /\ gameState = "Level3" /\ nextState = None /\ restartRes = None
    /\ phase = "Running" /\ ran = {} /\ dt \in GateDeltas
    /\ player = NewPlayer /\ touching = {}
    /\ cams = EmptyFn /\ sockets = EmptyFn /\ switches = EmptyFn
    /\ codes = EmptyFn /\ fans = EmptyFn
    /\ gates = [g \in GateIds |-> NewGate]
    /\ pending = [g \in GateIds |-> NoSensorCmd]
    /\ last = Step("init")
    /\ parts = [g \in GateIds |-> GatePartsInit]

\* some system calls Gate::open, whatever opened() says
GateCallOpen ==
    \E g \in GateIds :
        /\ gates' = [gates EXCEPT ![g] = GateOpen(gates[g])]
        /\ last' = [Step("open") EXCEPT !.acted = GateOpened(gates[g])]
        /\ UNCHANGED <<gameState, nextState, restartRes, phase, ran, dt, player,
                       touching, cams, sockets, switches, codes, fans, pending,
                       parts>>

\* gate::update, once per frame
GateSysUpdate ==
    /\ "gate_update" \notin ran
    /\ LET r == [g \in GateIds |-> GateTick(gates[g], parts[g].anim)]
       IN  /\ gates' = [g \in GateIds |-> r[g].gate]
           /\ parts' = [g \in GateIds |-> [parts[g] EXCEPT !.anim = r[g].anim]]
           /\ pending' = [g \in GateIds |->
                             [remove |-> r[g].remove, insert |-> r[g].insert]]
    /\ ran' = ran \cup {"gate_update"}
    /\ last' = [Step("gate_update") EXCEPT !.acted = (last.sys = "open" /\ last.acted)]
    /\ UNCHANGED <<gameState, nextState, restartRes, phase, dt, player, touching,
                   cams, sockets, switches, codes, fans>>

\* the end of the frame: the queued commands are applied, the engine
\* advances the animations, and the next frame begins
GateEndFrame ==
    /\ "gate_update" \in ran
    /\ parts' = [g \in GateIds |->
                    [anim   |-> AnimAdvance(parts[g].anim, dt),
                     sensor |-> SensorAfter(parts[g].sensor, pending[g])]]
    /\ pending' = [g \in GateIds |-> NoSensorCmd]
    /\ ran' = {}
    /\ dt' \in GateDeltas
    /\ last' = Step("end_frame")
    /\ UNCHANGED <<gameState, nextState, restartRes, phase, player, touching,
                   cams, sockets, switches, gates, codes, fans>>

GateNext ==
    \/ GateCallOpen
    \/ GateSysUpdate
    \/ GateEndFrame

SpecGate == GateInit /\ [][GateNext]_vars

(***************************************************************************)
(* Claims about the gate, under SpecGate                                   *)
(***************************************************************************)
\* C24 (as stated): Gate.opened() is false at construction and true only in
\* states where open() has been called and the opening animation has
\* finished: no reachable state has opened() true while the opening
\* animation is in flight.
C24_OpenedOnlyWhenFinished ==
    /\ ~GateOpened(NewGate)
    /\ \A g \in DOMAIN gates :
          GateOpened(gates[g]) => (gates[g].is_open /\ AnimFinished(parts[g].anim))

\* C24 (amended): Gate.opened() is false at construction and true only in
\* states where open() has been called and gate::update has since taken the
\* request and started the opening animation; it does not wait for the
\* animation to finish.
C24_OpenedOnceStarted ==
    /\ ~GateOpened(NewGate)
    /\ \A g \in DOMAIN gates :
          GateOpened(gates[g]) =>
              /\ gates[g].is_open
              /\ parts[g].anim.clip = "gate.animation"
              /\ parts[g].anim.starts = 1

\* opened() is true while the opening animation is half way
C24_Witness ==
    \E g \in DOMAIN gates :
        /\ GateOpened(gates[g])
        /\ parts[g].anim.clip = "gate.animation"
        /\ parts[g].anim.elapsed > 0
        /\ ~AnimFinished(parts[g].anim)
        /\ ~parts[g].sensor

C26_SensorOnlyWhenOpen ==
    [][\A g \in DOMAIN gates :
          /\ pending'[g].insert =>
                (gates'[g].is_open /\ AnimFinished(parts'[g].anim))
          /\ parts'[g].sensor =>
                /\ gates'[g].is_open /\ AnimFinished(parts'[g].anim)
                /\ parts[g].sensor \/ pending[g].insert
          /\ parts[g].sensor => parts'[g].sensor]_vars

\* the collider is pass-through, and open() has been called again since
C26_Witness ==
    \E g \in DOMAIN gates :
        /\ parts[g].sensor
        /\ gates[g].start_animation
        /\ AnimFinished(parts[g].anim)

(***************************************************************************)
(* SpecDoor: Level3's switch1 wired to gate1, frame by frame: the three    *)
(* systems run once per frame in any order, then the frame ends            *)
(***************************************************************************)
DoorSwitches == {"switch1"}

DoorGates == {"gate1"}

DoorDeltas == {100, 250}

DoorSystems == {"switch_update", "process_sensors", "gate_update"}

WireGateKeep(sw, g) == g

WireGateOpenEarly(sw, g) == IF ~GateOpened(g) THEN GateOpen(g) ELSE g

\* process_sensors, lines 160-162: switch1.activated() && !gate1.opened()
WireGateOpen(sw, g) ==
    IF SwitchActivated(sw) /\ ~GateOpened(g) THEN GateOpen(g) ELSE g

DoorInit ==
    /\ gameState = "Level3" /\ nextState = None /\ restartRes = None
    /\ phase = "Running" /\ ran = {} /\ dt \in DoorDeltas
    /\ player \in {[NewPlayer EXCEPT !.is_action = act] : act \in BOOLEAN}
    /\ touching \in SUBSET DoorSwitches
    /\ cams = EmptyFn /\ sockets = EmptyFn /\ codes = EmptyFn /\ fans = EmptyFn
    /\ switches = [w \in DoorSwitches |-> NewSwitch]
    /\ gates = [g \in DoorGates |-> NewGate]
    /\ pending = [g \in DoorGates |-> NoSensorCmd]
    /\ last = Step("init")
    /\ parts = [x \in DoorSwitches \cup DoorGates |->
                   IF x \in DoorGates THEN GatePartsInit ELSE SwitchPartsInit]

\* switch::update
DoorSwitchUpdate ==
    /\ "switch_update" \notin ran
    /\ switches' = SwitchUpdate(switches, touching, player.is_action, dt)
    /\ parts' = [x \in DOMAIN parts |->
                    IF x \in DoorSwitches
                        THEN [anim |-> SwitchAnimate(parts[x].anim, switches[x],
                                                     x \in touching, player.is_action)]
                        ELSE parts[x]]
    /\ ran' = ran \cup {"switch_update"}
    /\ last' = [Step("switch_update") EXCEPT !.acted = last.acted]
    /\ UNCHANGED <<gameState, nextState, restartRes, phase, dt, player, touching,
                   cams, sockets, gates, codes, fans, pending>>

\* lvl3 process_sensors, the statement on switch1 and gate1; last.acted
\* tells for the rest of the frame that this run opened a closed gate
DoorProcessSensors ==
    /\ "process_sensors" \notin ran
    /\ gates' = [g \in DoorGates |-> WireGateOpen(switches["switch1"], gates[g])]
    /\ ran' = ran \cup {"process_sensors"}
    /\ last' = [Step("process_sensors") EXCEPT
                    !.acted = \E g \in DoorGates : ~gates[g].is_open /\ gates'[g].is_open]
    /\ UNCHANGED <<gameState, nextState, restartRes, phase, dt, player, touching,
                   cams, sockets, switches, codes, fans, pending, parts>>

\* gate::update
DoorGateUpdate ==
    /\ "gate_update" \notin ran
    /\ LET r == [g \in DoorGates |-> GateTick(gates[g], parts[g].anim)]
       IN  /\ gates' = [g \in DoorGates |-> r[g].gate]
           /\ parts' = [x \in DOMAIN parts |->
                           IF x \in DoorGates
                               THEN [parts[x] EXCEPT !.anim = r[x].anim]
                               ELSE parts[x]]
           /\ pending' = [g \in DoorGates |->
                             [remove |-> r[g].remove, insert |-> r[g].insert]]
    /\ ran' = ran \cup {"gate_update"}
    /\ last' = [Step("gate_update") EXCEPT !.acted = last.acted]
    /\ UNCHANGED <<gameState, nextState, restartRes, phase, dt, player, touching,
                   cams, sockets, switches, codes, fans>>

\* the end of the frame: queued commands are applied, the engine advances
\* the animations; the next frame begins with its delta, keys and contacts
DoorEndFrame ==
    /\ ran = DoorSystems
    /\ parts' = [x \in DOMAIN parts |->
                    IF x \in DoorGates
                        THEN [anim   |-> AnimAdvance(parts[x].anim, dt),
                              sensor |-> SensorAfter(parts[x].sensor, pending[x])]
                        ELSE [anim |-> AnimAdvance(parts[x].anim, dt)]]
    /\ pending' = [g \in DoorGates |-> NoSensorCmd]
    /\ ran' = {}
    /\ dt' \in DoorDeltas
    /\ \E act \in BOOLEAN : player' = [player EXCEPT !.is_action = act]
    /\ touching' \in SUBSET DoorSwitches
    /\ last' = Step("end_frame")
    /\ UNCHANGED <<gameState, nextState, restartRes, phase, cams, sockets,
                   switches, gates, codes, fans>>

DoorNext ==
    \/ DoorSwitchUpdate
    \/ DoorProcessSensors
    \/ DoorGateUpdate
    \/ DoorEndFrame

SpecDoor == DoorInit /\ [][DoorNext]_vars

\* every frame of the Update schedule runs each of its systems and ends
SpecDoorFair == DoorInit /\ [][DoorNext]_vars /\ WF_vars(DoorNext)

(***************************************************************************)
(* Claims about the switch, under SpecDoor                                 *)
(***************************************************************************)
\* C22: the clicked flag is a latch: it becomes true only in an update with
\* the player inside the sensor and action pressed, and once true it stays
\* true; activated() is false while the timer is below 0.5 and, once true,
\* never false again.
C22_SwitchLatches ==
    [][\A w \in DOMAIN switches :
          /\ switches[w].clicked => switches'[w].clicked
          /\ (switches'[w].clicked /\ ~switches[w].clicked) =>
                (last'.sys = "switch_update" /\ w \in touching /\ player.is_action)
          /\ switches'[w].timer < One \div 2 => ~SwitchActivated(switches'[w])
          /\ switches'[w].timer >= switches[w].timer
          /\ SwitchActivated(switches[w]) => SwitchActivated(switches'[w])]_vars

\* the switch was clicked, the player has let go and left, and the switch
\* stays clicked and activated through the update that sees it
C22_Witness ==
    /\ last.sys = "switch_update"
    /\ ~player.is_action /\ touching = {}
    /\ switches["switch1"].clicked
    /\ SwitchActivated(switches["switch1"])

\* C23: the pull animation is started exactly once, in the first update in
\* which the player is inside the sensor with action pressed, never again.
C23_PullStartsOnce ==
    [][\A w \in DOMAIN switches :
          /\ (parts'[w].anim.starts # parts[w].anim.starts) =
                /\ last'.sys = "switch_update"
                /\ w \in touching /\ player.is_action
                /\ ~switches[w].clicked
          /\ parts'[w].anim.starts <= 1
          /\ parts'[w].anim.elapsed >= parts[w].anim.elapsed]_vars

\* the animation was started once, and a later update sees the player
\* inside with action pressed again
C23_Witness ==
    /\ last.sys = "switch_update"
    /\ player.is_action /\ "switch1" \in touching
    /\ parts["switch1"].anim.starts = 1
    /\ parts["switch1"].anim.elapsed > 0

(***************************************************************************)
(* Claim about the switch and the gate together, under SpecDoorFair        *)
(***************************************************************************)
\* the gate is open for good: opened() and a pass-through collider
DoorOpen ==
    /\ GateOpened(gates["gate1"])
    /\ parts["gate1"].sensor

\* C27: if the player is inside switch1's sensor with action pressed, then
\* eventually gate1.opened() is true and its collider is pass-through, and
\* both stay so.
C27_PressOpensGate ==
    [](("switch1" \in touching /\ player.is_action) => <>[]DoorOpen)

\* the gate has been opened by the switch
C27_Witness ==
    /\ DoorOpen
    /\ switches["switch1"].clicked
    /\ AnimFinished(parts["gate1"].anim)
    /\ last.sys = "end_frame"

(***************************************************************************)
(* Fans and the player's push vector  (components/fan.rs, player.rs)       *)
(***************************************************************************)
\* fan.rs line 99: the speed a fan adds along its up axis
PushSpeed == 15

\* player.rs, process_movement: push_tmax = 0.1
PushTMax == 100

\* the fans of Level3
FanIds == {"fan1", "fan2", "fan3"}

\* transform_g.up().xy().normalize_or_zero() of each fan: two fans blow the
\* same way, one across, so that contributions add up
FanUp == [f \in FanIds |-> IF f = "fan2" THEN <<1, 0>> ELSE <<0, 1>>]

VecAdd(a, b) == <<a[1] + b[1], a[2] + b[2]>>

VecScale(a, k) == <<a[1] * k, a[2] * k>>

FanTickUnclamped(fan, d) ==
    IF fan.spinning THEN fan ELSE [fan EXCEPT !.factor = @ - d]

\* the else branch of lines 100-103: a stopped fan slows down
FanTick(fan, d) ==
    IF fan.spinning THEN fan ELSE [fan EXCEPT !.factor = Min(Max(@ - d, 0), One)]

\* the loop of lines 91-104 over the fans not yet visited, on the vector so far
RECURSIVE FanLoop(_, _, _, _)
FanLoop(todo, fns, touch, vec) ==
    IF todo = {}
        THEN vec
        ELSE LET f == CHOOSE x \in todo : TRUE
                 v == IF fns[f].spinning /\ f \in touch
                          THEN VecAdd(vec, VecScale(FanUp[f], PushSpeed))
                          ELSE vec
             IN  FanLoop(todo \ {f}, fns, touch, v)

FanUpdateCarry(p, fns, touch, d) ==
    [player |-> [p EXCEPT !.push_vec = FanLoop(DOMAIN fns, fns, touch, p.push_vec)],
     fans   |-> [f \in DOMAIN fns |-> FanTick(fns[f], d)]]

\* fan::update, lines 90-105
FanUpdate(p, fns, touch, d) ==
    [player |-> [p EXCEPT !.push_vec = FanLoop(DOMAIN fns, fns, touch, <<0, 0>>)],
     fans   |-> [f \in DOMAIN fns |-> FanTick(fns[f], d)]]

\* process_movement, lines 222 and 230-236: the push timer and the push
\* speed that goes into the impulse; the timer is kept up to push_tmax, above
\* which line 236 reads it as push_tmax
ProcessMovement(p, d) ==
    LET t == IF p.push_vec # <<0, 0>> THEN Min(p.push_timer + d, PushTMax) ELSE 0
    IN  [player     |-> [p EXCEPT !.push_timer = t],
         push_speed |-> <<(p.push_vec[1] * t) \div PushTMax,
                          (p.push_vec[2] * t) \div PushTMax>>]

(***************************************************************************)
(* SpecFans: fan::update, process_movement and the level's process_sensors *)
(* once per frame in any order                                             *)
(***************************************************************************)
FanDeltas == {500}

FanSystems == {"fan_update", "process_movement", "process_sensors"}

FanInit ==
    /\ gameState = "Level3" /\ nextState = None /\ restartRes = None
    /\ phase = "Running" /\ ran = {} /\ dt \in FanDeltas
    /\ player = NewPlayer /\ touching \in SUBSET FanIds
    /\ cams = EmptyFn /\ sockets = EmptyFn /\ switches = EmptyFn
    /\ gates = EmptyFn /\ codes = EmptyFn
    /\ fans = [f \in FanIds |-> NewFan]
    /\ pending = NoPending
    /\ last = Step("init")
    /\ parts = [x \in {"player"} |-> [push_speed |-> <<0, 0>>]]

\* fan::update
FanSysUpdate ==
    /\ "fan_update" \notin ran
    /\ LET r == FanUpdate(player, fans, touching, dt)
       IN  player' = r.player /\ fans' = r.fans
    /\ ran' = ran \cup {"fan_update"}
    /\ last' = Step("fan_update")
    /\ UNCHANGED <<gameState, nextState, restartRes, phase, dt, touching, cams,
                   sockets, switches, gates, codes, pending, parts>>

\* player::process_movement
FanSysMovement ==
    /\ "process_movement" \notin ran
    /\ LET r == ProcessMovement(player, dt)
       IN  /\ player' = r.player
           /\ parts' = [parts EXCEPT !["player"] = [push_speed |-> r.push_speed]]
    /\ ran' = ran \cup {"process_movement"}
    /\ last' = Step("process_movement")
    /\ UNCHANGED <<gameState, nextState, restartRes, phase, dt, touching, cams,
                   sockets, switches, gates, codes, fans, pending>>

\* lvl3 process_sensors, lines 152-166: the fans whose keypad or switch is
\* activated are stopped
FanSysSensors ==
    /\ "process_sensors" \notin ran
    /\ \E off \in SUBSET FanIds :
          fans' = [f \in FanIds |->
                      IF f \in off THEN [fans[f] EXCEPT !.spinning = FALSE] ELSE fans[f]]
    /\ ran' = ran \cup {"process_sensors"}
    /\ last' = Step("process_sensors")
    /\ UNCHANGED <<gameState, nextState, restartRes, phase, dt, player, touching,
                   cams, sockets, switches, gates, codes, pending, parts>>

\* the end of the frame; the next one has its delta and its contacts
FanEndFrame ==
    /\ ran = FanSystems
    /\ ran' = {}
    /\ dt' \in FanDeltas
    /\ touching' \in SUBSET FanIds
    /\ last' = Step("end_frame")
    /\ UNCHANGED <<gameState, nextState, restartRes, phase, player, cams, sockets,
                   switches, gates, codes, fans, pending, parts>>

FanNext ==
    \/ FanSysUpdate
    \/ FanSysMovement
    \/ FanSysSensors
    \/ FanEndFrame

SpecFans == FanInit /\ [][FanNext]_vars

(***************************************************************************)
(* Claims about the fans, under SpecFans                                   *)
(***************************************************************************)
\* what fan f adds for the player: its fixed push if it spins and its pusher
\* holds the player
Contribution(f) ==
    IF fans[f].spinning /\ f \in touching
        THEN <<PushSpeed * FanUp[f][1], PushSpeed * FanUp[f][2]>>
        ELSE <<0, 0>>

\* C28: after each fan pass the push vector is the sum of the contributions
\* of exactly the fans that are spinning and whose pusher contains the
\* player, zero if there is none; nothing is carried over from earlier ticks.
C28_PushIsSumOfFans ==
    [][last'.sys = "fan_update" =>
          /\ player'.push_vec[1] = Contribution("fan1")[1] + Contribution("fan2")[1]
                                     + Contribution("fan3")[1]
          /\ player'.push_vec[2] = Contribution("fan1")[2] + Contribution("fan2")[2]
                                     + Contribution("fan3")[2]]_vars

\* a fan pass that finds the player in two pushers, one of a stopped fan,
\* after a pass that had left another vector
C28_Witness ==
    /\ last.sys = "fan_update"
    /\ touching = {"fan1", "fan2"}
    /\ ~fans["fan1"].spinning /\ fans["fan2"].spinning
    /\ player.push_vec = <<PushSpeed, 0>>
    /\ player.push_timer > 0

\* C29 (as stated): within every tick the push vector is cleared, then every
\* fan contributes, then the movement step consumes it: under every execution
\* order process_movement reads the vector only after fan::update of the same
\* tick has run.
C29_MovementAfterFans ==
    [][last'.sys = "process_movement" => "fan_update" \in ran]_vars

(***************************************************************************)
(* SpecLoading: Level2's keypad, switch and fan from `ready` to their      *)
(* updates, with the Loading markers, the run conditions read from the     *)
(* world and the commands applied when the frame's schedule ends           *)
(***************************************************************************)
\* the elements `ready` tags (lvl2.rs 96-100) and the switch's screens
LoadCodes == {"code1"}

LoadSwitches == {"switch1"}

LoadFans == {"fan1"}

LoadElements == LoadCodes \cup LoadSwitches \cup LoadFans

LoadScreens == {"switch1.red", "switch1.green"}

\* lvl2.rs line 99: Code::new(1824)
LoadSecret == 1824

LoadDeltas == {250}

LoadSystems ==
    {"process_sensors", "ready", "code_init", "code_update", "switch_init",
     "switch_update", "fan_init", "fan_update"}

\* an entity of the scene: whether it has Loading, how often an init has
\* resolved it, and whether it has (or its sensor has) the component its
\* plugin looks for
NewEntity == [loading |-> FALSE, resolved |-> 0, marker |-> FALSE]

\* resolutions counted per entity
MaxResolved == 3

\* any_with_component::<Loading>()
AnyLoading(world) == \E x \in DOMAIN world : world[x].loading

\* resource_added::<Level2>(): true in the frame after the insertion
LevelAdded == phase \in {"Added", "Ready"}

CodeUpdateRunsUnguarded(cds, world) == cds # EmptyFn

\* code.rs 79-81: any_with_component::<Code>() and no Loading
CodeUpdateRuns(cds, world) == cds # EmptyFn /\ ~AnyLoading(world)

\* switch.rs 52-54: any_with_component::<SwitchSensor>() and no Loading
SwitchUpdateRuns(world) ==
    (\E w \in LoadSwitches : world[w].marker) /\ ~AnyLoading(world)

\* fan.rs 41-43: any_with_component::<Fan>() and no Loading
FanUpdateRuns(fns, world) == fns # EmptyFn /\ ~AnyLoading(world)

\* lvl2.rs 48-52: Player and Level2 exist and no Loading
WiringRunsLoaded(p, world) == p.exists /\ phase # "None" /\ ~AnyLoading(world)

\* an init's loop over its elements that have Loading: parts resolved
Resolve(world, xs) ==
    [x \in DOMAIN world |->
        IF x \in xs THEN [world[x] EXCEPT !.resolved = Min(@ + 1, MaxResolved)]
                    ELSE world[x]]

\* the command queue of a frame
NoCommands == [insert |-> {}, remove |-> {}, mark |-> {}]

\* the commands applied: insert((Loading, ..)), remove::<Loading>() and the
\* insertion of marker components
WorldAfter(world, cmds) ==
    [x \in DOMAIN world |->
        [loading  |-> IF x \in cmds.insert THEN TRUE
                      ELSE IF x \in cmds.remove THEN FALSE ELSE world[x].loading,
         resolved |-> world[x].resolved,
         marker   |-> world[x].marker \/ x \in cmds.mark]]

LoadInit ==
    /\ gameState = "Level2" /\ nextState = None /\ restartRes = None
    /\ phase = "Added" /\ ran = {} /\ dt \in LoadDeltas
    /\ player = NewPlayer /\ touching = {}
    /\ cams = EmptyFn /\ sockets = EmptyFn /\ gates = EmptyFn
    /\ codes = EmptyFn /\ switches = EmptyFn /\ fans = EmptyFn
    /\ pending = NoCommands
    /\ last = Step("init")
    /\ parts = [segments |-> EmptyFn,
                world    |-> [x \in LoadElements \cup LoadScreens |-> NewEntity]]

\* lvl2 ready, after process_sensors: the elements get (Loading, component)
\* by command, level.entities is set at once
LoadReady ==
    /\ "ready" \notin ran /\ "process_sensors" \in ran
    /\ IF LevelAdded
           THEN /\ pending' = [pending EXCEPT !.insert = @ \cup LoadElements,
                                              !.mark = @ \cup LoadCodes \cup LoadFans]
                /\ phase' = "Ready"
           ELSE UNCHANGED <<pending, phase>>
    /\ ran' = ran \cup {"ready"}
    /\ last' = [Step("ready") EXCEPT !.acted = LevelAdded]
    /\ UNCHANGED <<gameState, nextState, restartRes, dt, player, touching, cams,
                   sockets, switches, gates, codes, fans, parts>>

\* lvl2 process_sensors: returns while level.entities is None, else stops
\* the fan of an activated keypad
LoadProcessSensors ==
    /\ "process_sensors" \notin ran
    /\ IF WiringRunsLoaded(player, parts.world) /\ phase = "Live"
           THEN fans' = [f \in DOMAIN fans |->
                            IF codes["code1"].state = "Success"
                                THEN [fans[f] EXCEPT !.spinning = FALSE]
                                ELSE fans[f]]
           ELSE fans' = fans
    /\ ran' = ran \cup {"process_sensors"}
    /\ last' = [Step("process_sensors") EXCEPT
                   !.acted = WiringRunsLoaded(player, parts.world)]
    /\ UNCHANGED <<gameState, nextState, restartRes, phase, dt, player, touching,
                   cams, sockets, switches, gates, codes, pending, parts>>

\* code::init
LoadCodeInit ==
    /\ "code_init" \notin ran
    /\ LET xs == IF AnyLoading(parts.world)
                     THEN {c \in DOMAIN codes : parts.world[c].loading} ELSE {}
       IN  /\ pending' = [pending EXCEPT !.remove = @ \cup xs]
           /\ parts' = [segments |-> [c \in DOMAIN parts.segments |->
                                         IF c \in xs THEN CodePartsInit
                                                     ELSE parts.segments[c]],
                        world    |-> Resolve(parts.world, xs)]
    /\ ran' = ran \cup {"code_init"}
    /\ last' = [Step("code_init") EXCEPT !.acted = AnyLoading(parts.world)]
    /\ UNCHANGED <<gameState, nextState, restartRes, phase, dt, player, touching,
                   cams, sockets, switches, gates, codes, fans>>

\* code::update
LoadCodeUpdate ==
    /\ "code_update" \notin ran
    /\ IF CodeUpdateRuns(codes, parts.world)
           THEN LET r == CodeUpdate(codes, player.view_controller,
                                    touching \cap DOMAIN codes, player.is_action,
                                    player.is_mouse,
                                    [kind |-> "no_ray", code |-> None, number |-> 0],
                                    dt)
                IN  /\ codes' = r.codes
                    /\ player' = [player EXCEPT !.view_controller = r.view]
                    /\ parts' = [parts EXCEPT
                                    !.segments = CodeShow(@, r.codes, r.done)]
           ELSE UNCHANGED <<codes, player, parts>>
    /\ ran' = ran \cup {"code_update"}
    /\ last' = [Step("code_update") EXCEPT
                   !.acted = CodeUpdateRuns(codes, parts.world)]
    /\ UNCHANGED <<gameState, nextState, restartRes, phase, dt, touching, cams,
                   sockets, switches, gates, fans, pending>>

\* switch::init: the switches that have Loading, then the screens that have
\* Loading and SwitchScreen
LoadSwitchInit ==
    /\ "switch_init" \notin ran
    /\ LET on == AnyLoading(parts.world)
           ws == IF on THEN {w \in DOMAIN switches : parts.world[w].loading} ELSE {}
           ss == IF on THEN {s \in LoadScreens :
                                parts.world[s].loading /\ parts.world[s].marker}
                       ELSE {}
           children == IF ws = {} THEN {} ELSE LoadScreens
       IN  /\ pending' = [insert |-> pending.insert \cup children,
                          remove |-> pending.remove \cup ws \cup ss,
                          mark   |-> pending.mark \cup children \cup ws]
           /\ parts' = [parts EXCEPT !.world = Resolve(@, ws \cup ss)]
    /\ ran' = ran \cup {"switch_init"}
    /\ last' = [Step("switch_init") EXCEPT !.acted = AnyLoading(parts.world)]
    /\ UNCHANGED <<gameState, nextState, restartRes, phase, dt, player, touching,
                   cams, sockets, switches, gates, codes, fans>>

\* switch::update
LoadSwitchUpdate ==
    /\ "switch_update" \notin ran
    /\ switches' = IF SwitchUpdateRuns(parts.world)
                       THEN SwitchUpdate(switches, touching, player.is_action, dt)
                       ELSE switches
    /\ ran' = ran \cup {"switch_update"}
    /\ last' = [Step("switch_update") EXCEPT !.acted = SwitchUpdateRuns(parts.world)]
    /\ UNCHANGED <<gameState, nextState, restartRes, phase, dt, player, touching,
                   cams, sockets, gates, codes, fans, pending, parts>>

\* fan::init
LoadFanInit ==
    /\ "fan_init" \notin ran
    /\ LET xs == IF AnyLoading(parts.world)
                     THEN {f \in DOMAIN fans : parts.world[f].loading} ELSE {}
       IN  /\ pending' = [pending EXCEPT !.remove = @ \cup xs]
           /\ parts' = [parts EXCEPT !.world = Resolve(@, xs)]
    /\ ran' = ran \cup {"fan_init"}
    /\ last' = [Step("fan_init") EXCEPT !.acted = AnyLoading(parts.world)]
    /\ UNCHANGED <<gameState, nextState, restartRes, phase, dt, player, touching,
                   cams, sockets, switches, gates, codes, fans>>

\* fan::update
LoadFanUpdate ==
    /\ "fan_update" \notin ran
    /\ IF FanUpdateRuns(fans, parts.world)
           THEN LET r == FanUpdate(player, fans, touching, dt)
                IN  player' = r.player /\ fans' = r.fans
           ELSE UNCHANGED <<player, fans>>
    /\ ran' = ran \cup {"fan_update"}
    /\ last' = [Step("fan_update") EXCEPT !.acted = FanUpdateRuns(fans, parts.world)]
    /\ UNCHANGED <<gameState, nextState, restartRes, phase, dt, touching, cams,
                   sockets, switches, gates, codes, pending, parts>>

\* the end of the frame: the commands are applied; the next frame has its
\* keys and contacts
LoadEndFrame ==
    /\ ran = LoadSystems
    /\ parts' = [segments |-> [c \in LoadCodes \cap pending.insert |-> CodePartsInit]
                                 @@ parts.segments,
                 world    |-> WorldAfter(parts.world, pending)]
    /\ codes' = [c \in LoadCodes \cap pending.insert |-> NewCode(LoadSecret)] @@ codes
    /\ switches' = [w \in LoadSwitches \cap pending.insert |-> NewSwitch] @@ switches
    /\ fans' = [f \in LoadFans \cap pending.insert |-> NewFan] @@ fans
    /\ pending' = NoCommands
    /\ phase' = "Live"
    /\ ran' = {}
    /\ dt' \in LoadDeltas
    /\ \E act \in BOOLEAN : player' = [player EXCEPT !.is_action = act]
    /\ touching' \in SUBSET (LoadCodes \cup LoadSwitches)
    /\ last' = Step("end_frame")
    /\ UNCHANGED <<gameState, nextState, restartRes, cams, sockets, gates>>

\* the level is restarted between two frames: its subtree and the player are
\* despawned and the Level2 resource is inserted anew
LoadEnvRestart ==
    /\ ran = {} /\ phase = "Live"
    /\ phase' = "Added"
    /\ player' = NewPlayer /\ touching' = {}
    /\ codes' = EmptyFn /\ switches' = EmptyFn /\ fans' = EmptyFn
    /\ pending' = NoCommands
    /\ parts' = [segments |-> EmptyFn,
                 world    |-> [x \in LoadElements \cup LoadScreens |-> NewEntity]]
    /\ last' = Step("cleanup")
    /\ UNCHANGED <<gameState, nextState, restartRes, ran, dt, cams, sockets, gates>>

LoadNext ==
    \/ LoadReady
    \/ LoadProcessSensors
    \/ LoadCodeInit
    \/ LoadCodeUpdate
    \/ LoadSwitchInit
    \/ LoadSwitchUpdate
    \/ LoadFanInit
    \/ LoadFanUpdate
    \/ LoadEndFrame
    \/ LoadEnvRestart

SpecLoading == LoadInit /\ [][LoadNext]_vars

(***************************************************************************)
(* Claim about loading, under SpecLoading                                  *)
(***************************************************************************)
\* the systems C30 keeps from running while an element is Loading
GuardedSystems == {"code_update", "switch_update", "fan_update", "process_sensors"}

\* the entities whose resolution count rises in the step
ResolvedNow(x) == parts'.world[x].resolved > parts.world[x].resolved

\* C30: no element's update and no level wiring runs while an entity still
\* has Loading; each element's parts are resolved exactly once per level
\* instance, before its first state transition, whatever the order of the
\* systems in a frame, with commands applied when the frame ends.
C30_NoUpdateWhileLoading ==
    [][/\ (last'.sys \in GuardedSystems /\ last'.acted) =>
              /\ ~AnyLoading(parts.world)
              /\ \A x \in DOMAIN codes \cup DOMAIN switches \cup DOMAIN fans :
                    parts.world[x].resolved = 1
              /\ \A x \in LoadScreens :
                    switches # EmptyFn => parts.world[x].resolved = 1
       /\ \A x \in DOMAIN parts.world :
              /\ parts'.world[x].resolved <= 1
              /\ ResolvedNow(x) =>
                    /\ parts.world[x].loading
                    /\ x \in DOMAIN codes => codes[x] = NewCode(LoadSecret)
                    /\ x \in DOMAIN switches => switches[x] = NewSwitch
                    /\ x \in DOMAIN fans => fans[x] = NewFan
       /\ \A c \in DOMAIN codes' :
              codes'[c] # NewCode(LoadSecret) => parts'.world[c].resolved = 1
       /\ \A w \in DOMAIN switches' :
              switches'[w] # NewSwitch => parts'.world[w].resolved = 1]_vars

\* the switch's screens are still Loading though the switch no longer is,
\* and the updates and the wiring of this frame have been skipped
C30_Witness ==
    /\ \A s \in LoadScreens : parts.world[s].loading
    /\ \A x \in LoadElements : ~parts.world[x].loading /\ parts.world[x].resolved = 1
    /\ GuardedSystems \subseteq ran
    /\ switches = [w \in LoadSwitches |-> NewSwitch]
    /\ touching = LoadSwitches /\ player.is_action

(***************************************************************************)
(* Claims about level transitions, under Spec                              *)
(***************************************************************************)
\* C31: in Level2, Level3 and Level4 a level transition is requested only by
\* the level's wiring: the advance only in a tick where the end socket is
\* connected, the Restart only in a tick where the wired camera is triggered;
\* in every other tick nothing is requested, and the game state changes only
\* to the state that was requested.
C31_TransitionOnlyByWiring ==
    [][/\ (/\ gameState \in Levels /\ gameState' = gameState
           /\ nextState' # nextState /\ nextState' # None)
          => /\ WiringRuns
             /\ \/ /\ nextState' = LevelAfter(gameState)
                   /\ SocketConnected(sockets["e1"])
                \/ /\ nextState' = "Restart"
                   /\ \E c \in LevelCams(gameState) : cams[c].triggered
       /\ (gameState \in Levels /\ gameState' # gameState)
          => (nextState # None /\ gameState' = nextState)]_vars

\* Level3's wiring has just requested Level4 on its connected end socket
C31_Witness ==
    /\ gameState = "Level3" /\ phase = "Running"
    /\ "process_sensors" \in ran
    /\ nextState = "Level4"
    /\ SocketConnected(sockets["e1"])

(***************************************************************************)
(* SpecTimers: one element of one kind, ticked by its update with any      *)
(* input and short or long frames                                          *)
(***************************************************************************)
\* code.rs lines 224-227: press depth per second, in thousandths
BtnRate == 10000

\* the buttons of the keypad that are followed
TimButtons == {1, 8}

TimKinds == {"switch", "camera", "fan", "socket", "code"}

\* a short frame and one longer than any ramp
TimDeltas == {250, 3000}

TimHits == CursorHits({"code1"}, TimButtons)

\* lines 220-230: one button's press depth after its turn in the loop
BtnTimerStep(t, pressed, d) ==
    Min(Max(IF pressed THEN t + Ramp(d, BtnRate) ELSE t - Ramp(d, BtnRate), 0), One)

\* lines 207-235: the buttons of an Acting code that was not left in this
\* turn, when the cursor ray hit exactly one entity
CodeButtonsStep(btns, c, name, act, hit, d) ==
    IF /\ c.state = "Acting" /\ ~(~c.is_action_last /\ act)
       /\ hit.kind \in {"other", "button"}
        THEN [b \in DOMAIN btns |->
                 BtnTimerStep(btns[b],
                              hit.kind = "button" /\ hit.code = name /\ hit.number = b,
                              d)]
        ELSE btns

TimInit ==
    /\ gameState = "Level2" /\ nextState = None /\ restartRes = None
    /\ phase = "Running" /\ ran = {} /\ dt \in TimDeltas
    /\ player = NewPlayer /\ touching = {}
    /\ gates = EmptyFn
    /\ pending = NoPending /\ last = Step("init")
    /\ \E k \in TimKinds :
          /\ switches = IF k = "switch" THEN [w \in {"switch1"} |-> NewSwitch] ELSE EmptyFn
          /\ cams = IF k = "camera" THEN [c \in {"cam1"} |-> NewCamera] ELSE EmptyFn
          /\ fans = IF k = "fan" THEN [f \in {"fan1"} |-> NewFan] ELSE EmptyFn
          /\ sockets = IF k = "socket"
                           THEN [s \in {"s1", "e1"} |-> NewSocket(s = "s1")]
                           ELSE EmptyFn
          /\ codes = IF k = "code" THEN [c \in {"code1"} |-> NewCode(LoadSecret)]
                                   ELSE EmptyFn
          /\ parts = IF k = "code"
                         THEN [segments |-> [c \in {"code1"} |-> CodePartsInit],
                               buttons  |-> [c \in {"code1"} |->
                                                [b \in TimButtons |-> 0]]]
                         ELSE [segments |-> EmptyFn, buttons |-> EmptyFn]

\* switch::update
TimSwitchUpdate ==
    /\ switches # EmptyFn
    /\ \E ins \in SUBSET DOMAIN switches, act \in BOOLEAN, d \in TimDeltas :
          /\ switches' = SwitchUpdate(switches, ins, act, d)
          /\ player' = [player EXCEPT !.is_action = act]
          /\ touching' = ins /\ dt' = d
    /\ last' = Step("switch_update")
    /\ UNCHANGED <<gameState, nextState, restartRes, phase, ran, cams, sockets,
                   gates, codes, fans, pending, parts>>

\* security_camera::update, after the wiring may have switched the camera
\* off and socket::update may have set or cleared its wire flag
TimCamUpdate ==
    /\ cams # EmptyFn
    /\ \E ins \in SUBSET DOMAIN cams, off \in BOOLEAN, wire \in BOOLEAN,
          d \in TimDeltas :
          /\ cams' = CameraUpdate(
                         [c \in DOMAIN cams |->
                             [cams[c] EXCEPT !.active = @ /\ ~off, !.wire = wire]],
                         ins, d)
          /\ touching' = ins /\ dt' = d
    /\ last' = Step("camera_update")
    /\ UNCHANGED <<gameState, nextState, restartRes, phase, ran, player, sockets,
                   switches, gates, codes, fans, pending, parts>>

\* fan::update, after the wiring may have stopped the fan
TimFanUpdate ==
    /\ fans # EmptyFn
    /\ \E ins \in SUBSET DOMAIN fans, off \in BOOLEAN, d \in TimDeltas :
          LET r == FanUpdate(player,
                             [f \in DOMAIN fans |->
                                 [fans[f] EXCEPT !.spinning = @ /\ ~off]],
                             ins, d)
          IN  /\ fans' = r.fans /\ player' = r.player
              /\ touching' = ins /\ dt' = d
    /\ last' = Step("fan_update")
    /\ UNCHANGED <<gameState, nextState, restartRes, phase, ran, cams, sockets,
                   switches, gates, codes, pending, parts>>

\* socket::update
TimSocketUpdate ==
    /\ sockets # EmptyFn
    /\ \E ins \in SUBSET DOMAIN sockets, act \in BOOLEAN, d \in TimDeltas,
          ray \in GraphRays :
          LET r == SocketUpdate(sockets, cams, player.socket, ins, act, d, ray)
          IN  /\ sockets' = r.sockets
              /\ player' = [player EXCEPT !.socket = r.slot, !.is_action = act]
              /\ touching' = ins /\ dt' = d
    /\ last' = Step("socket_update")
    /\ UNCHANGED <<gameState, nextState, restartRes, phase, ran, cams, switches,
                   gates, codes, fans, pending, parts>>

\* code::update
TimCodeUpdate ==
    /\ codes # EmptyFn
    /\ \E ins \in SUBSET DOMAIN codes, act \in BOOLEAN, mouse \in BOOLEAN,
          hit \in TimHits, d \in TimDeltas :
          LET r == CodeUpdate(codes, player.view_controller, ins, act, mouse, hit, d)
          IN  /\ codes' = r.codes
              /\ parts' = [segments |-> CodeShow(parts.segments, r.codes, r.done),
                           buttons  |-> [c \in DOMAIN codes |->
                                            CodeButtonsStep(parts.buttons[c], codes[c],
                                                            c, act, hit, d)]]
              /\ player' = [player EXCEPT !.is_action = act, !.is_mouse = mouse,
                                          !.view_controller = r.view]
              /\ touching' = ins /\ dt' = d
    /\ last' = Step("code_update")
    /\ UNCHANGED <<gameState, nextState, restartRes, phase, ran, cams, sockets,
                   switches, gates, fans, pending>>

TimNext ==
    \/ TimSwitchUpdate
    \/ TimCamUpdate
    \/ TimFanUpdate
    \/ TimSocketUpdate
    \/ TimCodeUpdate

SpecTimers == TimInit /\ [][TimNext]_vars

(***************************************************************************)
(* Claim about the clamped accumulators, under SpecTimers                  *)
(***************************************************************************)
InUnit(t) == 0 <= t /\ t <= One

\* C32: after every tick, for any positive delta and any input, the switch
\* timer, the camera detection timer, the fan factor, the button press
\* depths and the socket break timer lie in [0,1], and the code finish
\* timer is at least 0.
C32_AccumulatorsBounded ==
    /\ \A w \in DOMAIN switches : InUnit(switches[w].timer)
    /\ \A c \in DOMAIN cams : InUnit(cams[c].timer)
    /\ \A f \in DOMAIN fans : InUnit(fans[f].factor)
    /\ \A s \in DOMAIN sockets : InUnit(sockets[s].break_timer)
    /\ \A c \in DOMAIN codes :
          /\ codes[c].finish_timer >= 0
          /\ \A b \in DOMAIN parts.buttons[c] : InUnit(parts.buttons[c][b])

\* a stopped fan has run down to 0 in a frame longer than its run-down
C32_Witness ==
    /\ last.sys = "fan_update" /\ dt = 3000
    /\ \E f \in DOMAIN fans : ~fans[f].spinning /\ fans[f].factor = 0

(***************************************************************************)
(* Claims about wiring and gate update within a frame, under SpecDoor      *)
(***************************************************************************)
\* C33: a command the wiring issues in a frame (here gate.open()) is not
\* observed by the target's own update in the same frame: a gate update
\* that runs in a frame after the wiring has opened the gate does not yet
\* start the opening animation, whatever the order of the systems.
C33_CommandSeenNextTick ==
    [][\A g \in DOMAIN gates :
          (last'.sys = "gate_update" /\ last.acted)
              => /\ parts'[g].anim.starts = parts[g].anim.starts
                 /\ gates'[g].start_animation = gates[g].start_animation]_vars

\* C34: with the guard !opened() before open(), the opening animation of a
\* gate is started exactly once after its trigger is activated: it starts
\* only in a gate update that finds the start requested by the wiring of an
\* activated switch, every gate update that finds the gate open has it
\* started, and it is never started a second time, whichever of wiring and
\* gate update runs first in a frame and however often the wiring runs.
C34_OpeningStartedOnce ==
    [][\A g \in DOMAIN gates :
          /\ parts'[g].anim.starts <= 1
          /\ (parts'[g].anim.starts # parts[g].anim.starts)
                => /\ last'.sys = "gate_update"
                   /\ gates[g].start_animation
                   /\ SwitchActivated(switches["switch1"])
          /\ (last'.sys = "gate_update" /\ gates[g].is_open)
                => parts'[g].anim.starts = 1
          /\ GateOpened(gates'[g]) => parts'[g].anim.starts = 1]_vars

\* the wiring is evaluated again with the switch activated after the gate
\* update of an earlier frame has started the animation
C34_Witness ==
    /\ last.sys = "process_sensors"
    /\ "gate_update" \notin ran
    /\ SwitchActivated(switches["switch1"])
    /\ GateOpened(gates["gate1"])
    /\ parts["gate1"].anim.starts = 1
    /\ parts["gate1"].anim.elapsed > 0

(***************************************************************************)
(* SpecCollisions: player::process_collisions on the collision events of a *)
(* frame, and the PlayerCollision records its commands leave               *)
(***************************************************************************)
\* the colliders the player can touch
ColEntities == {"switch1", "fan1", "cam1"}

\* the most events one run of the system reads
MaxEvents == 2

\* CollisionEvent::Started / Stopped, reduced to the collider that is not
\* the player; None for a pair without the player
ColEvents ==
    [kind : {"Started", "Stopped"}, other : ColEntities \cup {None}]

\* the colliders in contact after a sequence of events, from those in
\* contact before it
RECURSIVE ContactsAfter(_, _)
ContactsAfter(events, inside) ==
    IF events = <<>>
        THEN inside
        ELSE LET ev == Head(events)
             IN  ContactsAfter(Tail(events),
                               IF ev.other = None THEN inside
                               ELSE IF ev.kind = "Started"
                                   THEN inside \cup {ev.other}
                                   ELSE inside \ {ev.other})

\* the physics engine reports a contact as started only when it was not in
\* contact, and as stopped only when it was
RECURSIVE Alternating(_, _)
Alternating(events, inside) ==
    IF events = <<>>
        THEN TRUE
        ELSE LET ev == Head(events)
             IN  /\ ev.other # None =>
                        ((ev.kind = "Started") = (ev.other \notin inside))
                 /\ Alternating(Tail(events), ContactsAfter(<<ev>>, inside))

\* the event sequences one run can read with the given colliders in contact
EventBatches(inside) ==
    {evs \in UNION {[1..n -> ColEvents] : n \in 0..MaxEvents} :
        Alternating(evs, inside)}

NoCollisionCmd == [spawn |-> [e \in ColEntities |-> 0], despawn |-> {}]

\* process_collisions, lines 347-384: the commands queued for a sequence of
\* events, with records[e] records for collider e in the world the system
\* queries
RECURSIVE CollisionLoop(_, _, _)
CollisionLoop(events, records, cmd) ==
    IF events = <<>>
        THEN cmd
        ELSE LET ev == Head(events)
             IN  CollisionLoop(
                     Tail(events), records,
                     IF ev.other = None THEN cmd
                     ELSE IF ev.kind = "Started"
                         THEN [cmd EXCEPT !.spawn[ev.other] = @ + 1]
                         ELSE IF records[ev.other] > 0
                             THEN [cmd EXCEPT !.despawn = @ \cup {ev.other}]
                             ELSE cmd)

\* the end of the schedule: every record found by a Stopped event is
\* despawned, every spawn adds a record
RecordsAfter(records, cmd) ==
    [e \in DOMAIN records |->
        (IF e \in cmd.despawn THEN 0 ELSE records[e]) + cmd.spawn[e]]

\* what an element's Query<&PlayerCollision> sees
Touched(records) == {e \in DOMAIN records : records[e] > 0}

ColInit ==
    /\ gameState = "Level2" /\ nextState = None /\ restartRes = None
    /\ phase = "Running" /\ ran = {} /\ dt = 0
    /\ player = NewPlayer /\ touching = {}
    /\ cams = EmptyFn /\ sockets = EmptyFn /\ switches = EmptyFn
    /\ gates = EmptyFn /\ codes = EmptyFn /\ fans = EmptyFn
    /\ pending = NoCollisionCmd
    /\ last = [Step("init") EXCEPT !.inside = {}]
    /\ parts = [e \in ColEntities |-> 0]

\* process_collisions; last.inside follows the contacts the events report
ColProcessCollisions ==
    /\ ran = {}
    /\ \E evs \in EventBatches(last.inside) :
          /\ pending' = CollisionLoop(evs, parts, NoCollisionCmd)
          /\ last' = [Step("process_collisions") EXCEPT
                         !.inside = ContactsAfter(evs, last.inside)]
    /\ ran' = {"process_collisions"}
    /\ UNCHANGED <<gameState, nextState, restartRes, phase, dt, player, touching,
                   cams, sockets, switches, gates, codes, fans, parts>>

\* the end of the frame: the queued commands are applied
ColEndFrame ==
    /\ ran = {"process_collisions"}
    /\ parts' = RecordsAfter(parts, pending)
    /\ touching' = Touched(RecordsAfter(parts, pending))
    /\ pending' = NoCollisionCmd
    /\ ran' = {}
    /\ last' = [Step("end_frame") EXCEPT !.inside = last.inside]
    /\ UNCHANGED <<gameState, nextState, restartRes, phase, dt, player,
                   cams, sockets, switches, gates, codes, fans>>

ColNext ==
    \/ ColProcessCollisions
    \/ ColEndFrame

SpecCollisions == ColInit /\ [][ColNext]_vars

(***************************************************************************)
(* Claim about the touching set, under SpecCollisions                      *)
(***************************************************************************)
\* C35: after the collision events of a tick are processed and the commands
\* applied, the standing touching set is exactly the set of colliders with
\* a begin event and no later end event, also when the begin and the end
\* of a collider arrive in the same tick.
C35_TouchingIsOpenContacts ==
    last.sys = "end_frame" => touching = last.inside

(***************************************************************************)
(* SpecFocus: the two keypads of the third level with the buttons that     *)
(* spell code2's secret                                                    *)
(***************************************************************************)
FocusButtons == {2, 4, 8}

FocusHits == CursorHits({"code2"}, FocusButtons)

FocusInit == PairInit

\* code::update in a frame, after process_keyboard wrote the keys; the
\* keypads stand apart
FocusSysUpdate ==
    \E ins \in {t \in SUBSET DOMAIN codes : Cardinality(t) <= MaxTouch},
       act \in BOOLEAN, mouse \in BOOLEAN,
       hit \in FocusHits, d \in PairDeltas :
        LET r == CodeUpdate(codes, player.view_controller, ins, act, mouse, hit, d)
        IN  /\ codes' = r.codes
            /\ parts' = CodeShow(parts, r.codes, r.done)
            /\ player' = [player EXCEPT !.is_action = act, !.is_mouse = mouse,
                                        !.view_controller = r.view]
            /\ touching' = ins
            /\ last' = Step("code_update")
            /\ UNCHANGED <<gameState, nextState, restartRes, phase, ran, dt, cams,
                           sockets, switches, gates, fans, pending>>

FocusNext == FocusSysUpdate

SpecFocus == FocusInit /\ [][FocusNext]_vars

(***************************************************************************)
(* Claim about several keypads, under SpecFocus                            *)
(***************************************************************************)
\* C36: while a keypad of the level is Acting or InputFinished, the
\* player's view focus (view_controller) is set; in particular a keypad
\* that is already in Success does not clear the focus another keypad set
\* when it entered Acting.
C36_FocusWhileActing ==
    \A c \in DOMAIN codes :
        (/\ codes[c].state \in {"Acting", "InputFinished"}
         /\ \A o \in DOMAIN codes \ {c} : codes[o].state = "Success")
            => player.view_controller # None

(***************************************************************************)
(* SpecWire: one wire of a level's process_sensors, from a switch to a     *)
(* gate, a fan or a camera, with the updates of both ends                  *)
(***************************************************************************)
\* the wires followed: the level, its source and its target
WireChoices ==
    {[lvl |-> "Level4", src |-> "switch2", kind |-> "gate", target |-> "gate5"],
     [lvl |-> "Level4", src |-> "switch1", kind |-> "fan", target |-> "fan1"],
     [lvl |-> "Level4", src |-> "switch3", kind |-> "cam", target |-> "cam1"],
     [lvl |-> "Level1", src |-> "switch1", kind |-> "cam", target |-> "cam1"]}

WireDeltas == {250}

WireSystems ==
    {"switch_update", "process_sensors", "gate_update", "fan_update", "camera_update"}

\* lvl1 process_sensors, line 151:
\* cam1.active = !(switch1.activated() || code1.activated())
WireCameraLevel1(cms, cds, sws) ==
    LET on == \E src \in {"switch1", "code1"} \cap (DOMAIN cds \cup DOMAIN sws) :
                  Activated(src, cds, sws)
    IN  [c \in DOMAIN cms |-> [cms[c] EXCEPT !.active = ~on]]

WireInit ==
    /\ nextState = None /\ restartRes = None
    /\ phase = "Running" /\ ran = {} /\ dt \in WireDeltas
    /\ player \in {[NewPlayer EXCEPT !.is_action = act] : act \in BOOLEAN}
    /\ sockets = EmptyFn /\ codes = EmptyFn
    /\ last = Step("init")
    /\ \E ch \in WireChoices :
          /\ gameState = ch.lvl
          /\ switches = [w \in {ch.src} |-> NewSwitch]
          /\ gates = IF ch.kind = "gate" THEN [g \in {ch.target} |-> NewGate] ELSE EmptyFn
          /\ fans = IF ch.kind = "fan" THEN [f \in {ch.target} |-> NewFan] ELSE EmptyFn
          /\ cams = IF ch.kind = "cam" THEN [c \in {ch.target} |-> NewCamera] ELSE EmptyFn
          /\ parts = IF ch.kind = "gate" THEN [g \in {ch.target} |-> GatePartsInit]
                                         ELSE EmptyFn
          /\ pending = IF ch.kind = "gate" THEN [g \in {ch.target} |-> NoSensorCmd]
                                           ELSE EmptyFn
          /\ touching \in SUBSET {ch.src, ch.target}

\* switch::update
WireSwitchUpdate ==
    /\ "switch_update" \notin ran
    /\ switches' = SwitchUpdate(switches, touching, player.is_action, dt)
    /\ ran' = ran \cup {"switch_update"}
    /\ last' = Step("switch_update")
    /\ UNCHANGED <<gameState, nextState, restartRes, phase, dt, player, touching,
                   cams, sockets, gates, codes, fans, pending, parts>>

\* process_sensors of the level: its gate, fan and camera rules
WireProcessSensors ==
    /\ "process_sensors" \notin ran
    /\ gates' = WireGates(gameState, gates, codes, switches)
    /\ fans' = WireFans(gameState, fans, codes, switches)
    /\ cams' = CASE cams = EmptyFn -> cams
                  [] gameState = "Level1" -> WireCameraLevel1(cams, codes, switches)
                  [] OTHER -> WireCameraOff(gameState, cams, switches)
    /\ ran' = ran \cup {"process_sensors"}
    /\ last' = Step("process_sensors")
    /\ UNCHANGED <<gameState, nextState, restartRes, phase, dt, player, touching,
                   sockets, switches, codes, pending, parts>>

\* gate::update
WireGateUpdate ==
    /\ "gate_update" \notin ran
    /\ LET r == [g \in DOMAIN gates |-> GateTick(gates[g], parts[g].anim)]
       IN  /\ gates' = [g \in DOMAIN gates |-> r[g].gate]
           /\ parts' = [g \in DOMAIN gates |-> [parts[g] EXCEPT !.anim = r[g].anim]]
           /\ pending' = [g \in DOMAIN gates |->
                             [remove |-> r[g].remove, insert |-> r[g].insert]]
    /\ ran' = ran \cup {"gate_update"}
    /\ last' = Step("gate_update")
    /\ UNCHANGED <<gameState, nextState, restartRes, phase, dt, player, touching,
                   cams, sockets, switches, codes, fans>>

\* fan::update
WireFanUpdate ==
    /\ "fan_update" \notin ran
    /\ LET r == FanUpdate(player, fans, touching, dt)
       IN  fans' = r.fans /\ player' = r.player
    /\ ran' = ran \cup {"fan_update"}
    /\ last' = Step("fan_update")
    /\ UNCHANGED <<gameState, nextState, restartRes, phase, dt, touching,
                   cams, sockets, switches, gates, codes, pending, parts>>

\* security_camera::update
WireCameraUpdate ==
    /\ "camera_update" \notin ran
    /\ cams' = CameraUpdate(cams, touching, dt)
    /\ ran' = ran \cup {"camera_update"}
    /\ last' = Step("camera_update")
    /\ UNCHANGED <<gameState, nextState, restartRes, phase, dt, player, touching,
                   sockets, switches, gates, codes, fans, pending, parts>>

\* the end of the frame: queued commands are applied, the animations
\* advance; the next frame begins with its delta, keys and contacts
WireEndFrame ==
    /\ ran = WireSystems
    /\ parts' = [g \in DOMAIN parts |->
                    [anim   |-> AnimAdvance(parts[g].anim, dt),
                     sensor |-> SensorAfter(parts[g].sensor, pending[g])]]
    /\ pending' = [g \in DOMAIN pending |-> NoSensorCmd]
    /\ ran' = {}
    /\ dt' \in WireDeltas
    /\ \E act \in BOOLEAN : player' = [player EXCEPT !.is_action = act]
    /\ touching' \in SUBSET (DOMAIN switches \cup DOMAIN gates \cup DOMAIN fans
                                 \cup DOMAIN cams)
    /\ last' = Step("end_frame")
    /\ UNCHANGED <<gameState, nextState, restartRes, phase, cams, sockets,
                   switches, gates, codes, fans>>

WireNext ==
    \/ WireSwitchUpdate
    \/ WireProcessSensors
    \/ WireGateUpdate
    \/ WireFanUpdate
    \/ WireCameraUpdate
    \/ WireEndFrame

SpecWire == WireInit /\ [][WireNext]_vars

(***************************************************************************)
(* Claim about the effects of the wiring, under SpecWire                   *)
(***************************************************************************)
\* C37: within a level instance the effects of the wiring are final: a
\* gate's is_open never returns to false, a fan's spinning never returns to
\* true and a camera's active never returns to true, in any later tick and
\* for any input.
C37_WiringIrreversible ==
    [][/\ \A g \in DOMAIN gates : gates[g].is_open => gates'[g].is_open
       /\ \A f \in DOMAIN fans : ~fans[f].spinning => ~fans'[f].spinning
       /\ \A c \in DOMAIN cams : ~cams[c].active => ~cams'[c].active]_vars

\* the fan was stopped in an earlier frame, has run down, and the wiring is
\* evaluated again
C37_Witness ==
    /\ last.sys = "process_sensors"
    /\ \E f \in DOMAIN fans : ~fans[f].spinning /\ fans[f].factor = 0

(***************************************************************************)
(* Claim about the break timer at pick-up, under SpecSocket                *)
(***************************************************************************)
\* C38: whenever a socket enters Carrying (a pick-up from CanCarryFrom) its
\* break_timer is 0: no break progress of an earlier carry survives a
\* cancel or a forced drop.
C38_PickUpStartsUnbroken ==
    [][\A s \in DOMAIN sockets :
          (sockets[s].state # "Carrying" /\ sockets'[s].state = "Carrying")
              => sockets'[s].break_timer = 0]_vars

(***************************************************************************)
(* Claim about the sequence of game states, under Spec                     *)
(***************************************************************************)
\* the order of the levels stated by the claim
C39_Following == [Level2 |-> "Level3", Level3 |-> "Level4", Level4 |-> "Level2"]

\* C39: from the default initial state the only game states ever current
\* are Level2, Level3, Level4 and Restart; a level is left only for the
\* level after it in the cycle Level2, Level3, Level4, Level2, ... or for
\* Restart, Restart is left only for the level it was entered from, Level0
\* and Level1 are never entered, and the level after Level4 is Level2
\* again, so the sequence has no last level.
C39_LevelCycle ==
    /\ gameState = "Level2"
    /\ [][/\ gameState' \in DOMAIN C39_Following \cup {"Restart"}
          /\ (gameState' # gameState /\ gameState # "Restart")
                => \/ gameState' = C39_Following[gameState]
                   \/ gameState' = "Restart" /\ nextState' = gameState
          /\ (gameState' # gameState /\ gameState = "Restart")
                => gameState' = nextState]_vars

\* the last level is being played and its connected end socket has
\* requested the first one again
C39_Witness ==
    /\ gameState = "Level4" /\ phase = "Running"
    /\ SocketConnected(sockets["e1"])
    /\ nextState = "Level2"

(***************************************************************************)
(* Claim about the keypads ticked in a frame, under SpecCodePair           *)
(***************************************************************************)
\* C40: in every frame in which code::update runs, every keypad is ticked:
\* its action and click edge detectors are refreshed with this frame's keys
\* and its state step is applied, whatever the state of the other keypads,
\* also while another keypad is Acting and the cursor ray hits no single
\* entity.
C40_EveryCodeTicked ==
    [][last'.sys = "code_update" =>
          \A c \in DOMAIN codes :
              /\ codes'[c].is_action_last = player'.is_action
              /\ codes'[c].is_mouse_last = player'.is_mouse
              /\ (codes[c].state = "Idle" /\ c \in touching'
                    /\ ~codes[c].is_action_last /\ player'.is_action)
                      => codes'[c].state = "Acting"]_vars

====
